---- MODULE Spec2Model ----
(***************************************************************************)
(* Model of the forex-strategist backend: the StrategyEngine               *)
(* (services/strategy_engine.py), the technical indicator calculator       *)
(* (services/forex_api.py), the sentiment analysis                         *)
(* (services/news_sentiment.py), the /analyze route (api/routes.py), the    *)
(* rate limiter (middleware/security.py), the memory cache (core/cache.py)  *)
(* and the metrics collector (core/monitoring.py).                         *)
(*                                                                         *)
(* Python floats are modelled as exact fixed-point integers:               *)
(*   weights            in thousandths            (1.0 = WeightScale)      *)
(*   factor scores      in 1/30000                (1.0 = ScoreScale)       *)
(*   overall score and thresholds in 1/30000000   (1.0 = OverallScale)     *)
(*   confidence         in 1/1800000              (1.0 = ConfScale)        *)
(*   raw sentiment      in thousandths            (1.0 = RawScale)         *)
(*   prices, averages   in hundredths             (1.0 = PriceScale)       *)
(* The scales are chosen so that every product and quotient the code       *)
(* computes on the modelled inputs is an integer, so no rounding is        *)
(* introduced by the model.                                                *)
(***************************************************************************)
EXTENDS Integers, Sequences, FiniteSets, TLC

VARIABLES
    weights,          \* StrategyEngine.weights: technical / sentiment / events
    buy_threshold,    \* StrategyEngine.buy_threshold
    sell_threshold,   \* StrategyEngine.sell_threshold
    call,             \* the last engine call: operation, arguments, outcome
    news_articles,    \* articles handed to analyze_sentiment
    time_series,      \* price history handed to the indicator calculator
    exchange_rate,    \* spot quote handed to get_technical_analysis
    technical_data,   \* technical snapshot awaiting synthesis
    sentiment_data,   \* sentiment snapshot awaiting synthesis
    api_key,          \* ForexAPIService.api_key is configured
    analyze,          \* the /analyze request in flight: position and response
    threads,          \* an updating and a synthesizing thread inside the engine
    limiter,          \* RateLimitMiddleware: clock, requests, blocked_ips
    memory_cache,     \* CacheManager.memory_cache in memory-fallback mode
    metrics,          \* MetricsCollector counters and durations
    db                \* rows committed by the /analyze database session

vars == <<weights, buy_threshold, sell_threshold, call,
          news_articles, time_series, exchange_rate, technical_data, sentiment_data,
          api_key, analyze, threads, limiter, memory_cache, metrics, db>>

config == <<weights, buy_threshold, sell_threshold>>

inputs == <<news_articles, time_series, exchange_rate, technical_data, sentiment_data>>

route == <<api_key, analyze>>

services == <<limiter, memory_cache, metrics, db>>

\* An optional value is None or Some(v); Val reads a present one.
None == <<>>

Some(v) == <<v>>

Val(o) == o[1]

WeightScale == 10 * 100
ScoreScale == 3 * 10000
OverallScale == ScoreScale * WeightScale
ConfScale == 60 * ScoreScale
RawScale == 10 * 100
PriceScale == 10 * 10

Abs(x) == IF x < 0 THEN -x ELSE x

\* max(lo, min(hi, x))
Clamp(lo, hi, x) == IF x > hi THEN hi ELSE IF x < lo THEN lo ELSE x

\* Python truthiness of an optional float: None and 0.0 are both falsy.
Truthy(o) == o # None /\ Val(o) # 0

(***************************************************************************)
(* StrategyEngine.__init__                                                 *)
(***************************************************************************)
DefaultWeights == [technical |-> 400, sentiment |-> 300, events |-> 300]

DefaultBuyThreshold == (6 * OverallScale) \div 10

DefaultSellThreshold == -((6 * OverallScale) \div 10)

\* The record of a call.  prior holds the result of the immediately preceding
\* call when that was the same synthesis (same arguments), else None; before
\* holds the label, the sentiment score and the closing paragraph of the
\* immediately preceding call when that was a synthesis, else None.
NoCall ==
    [op |-> "none", args |-> <<>>, raised |-> FALSE, result |-> None,
     prior |-> None, before |-> None]

\* The lines of a justification after its "Final Reasoning" heading.
Closing(justification) ==
    LET heading == CHOOSE i \in 1..Len(justification) :
                       justification[i] = <<"Final Reasoning">>
    IN  SubSeq(justification, heading + 1, Len(justification))

Outcome(op, args, raised, result) ==
    [op |-> op, args |-> args, raised |-> raised, result |-> result,
     prior |-> IF op = "generate_recommendation" /\ call.op = op
                  /\ call.args = args
               THEN Some(call.result) ELSE None,
     before |-> IF op = "generate_recommendation" /\ call.op = op
                   /\ ~call.raised
                THEN Some([recommendation |-> call.result.recommendation,
                           sentiment_score |-> call.result.sentiment_score,
                           closing |-> Closing(call.result.justification)])
                ELSE None]

(***************************************************************************)
(* update_strategy_weights: the only validation is the sum tolerance.      *)
(***************************************************************************)
\* Variant: the tolerance test without abs(), so a sum below 1.0 passes.
WeightsRejected_NoAbs(technical_weight, sentiment_weight, event_weight) ==
    LET total == technical_weight + sentiment_weight + event_weight
    IN  total - WeightScale > 1

WeightsRejected(technical_weight, sentiment_weight, event_weight) ==
    LET total == technical_weight + sentiment_weight + event_weight
    IN  Abs(total - WeightScale) > 1

update_strategy_weights(technical_weight, sentiment_weight, event_weight) ==
    LET args == <<technical_weight, sentiment_weight, event_weight>>
    IN  IF WeightsRejected(technical_weight, sentiment_weight, event_weight)
        THEN /\ call' = Outcome("update_strategy_weights", args, TRUE, None)
             /\ UNCHANGED <<config, inputs, route, threads, services>>
        ELSE /\ weights' = [technical |-> technical_weight,
                            sentiment |-> sentiment_weight,
                            events |-> event_weight]
             /\ call' = Outcome("update_strategy_weights", args, FALSE, None)
             /\ UNCHANGED <<buy_threshold, sell_threshold, inputs, route, threads, services>>

(***************************************************************************)
(* update_thresholds                                                       *)
(***************************************************************************)
\* Variant: only buy < sell is refused, so equal thresholds are stored.
ThresholdsRejected_Strict(buy, sell) == buy < sell

ThresholdsRejected(buy, sell) == buy <= sell

update_thresholds(buy, sell) ==
    IF ThresholdsRejected(buy, sell)
    THEN /\ call' = Outcome("update_thresholds", <<buy, sell>>, TRUE, None)
         /\ UNCHANGED <<config, inputs, route, threads, services>>
    ELSE /\ buy_threshold' = buy
         /\ sell_threshold' = sell
         /\ call' = Outcome("update_thresholds", <<buy, sell>>, FALSE, None)
         /\ UNCHANGED <<weights, inputs, route, threads, services>>

(***************************************************************************)
(* _determine_recommendation                                               *)
(***************************************************************************)
\* Variant: exclusive comparisons, a score on a threshold falls to hold.
determine_recommendation_Exclusive(overall_score) ==
    IF overall_score > buy_threshold THEN "buy"
    ELSE IF overall_score < sell_threshold THEN "sell"
    ELSE "hold"

determine_recommendation(overall_score) ==
    IF overall_score >= buy_threshold THEN "buy"
    ELSE IF overall_score <= sell_threshold THEN "sell"
    ELSE "hold"

(***************************************************************************)
(* _calculate_technical_score.  A technical snapshot is a record           *)
(* [current_rate, moving_average_5, moving_average_20, moving_average_50,  *)
(* trend_direction]; an absent average is None.  The accumulator is kept   *)
(* in tenths.                                                              *)
(***************************************************************************)
Signal(a, b, w) == IF a > b THEN w ELSE IF a < b THEN -w ELSE 0

\* Variant: the price and crossover signals gated on the rate alone.
MovingAverageGate_RateOnly(td) == td.current_rate > 0

\* if ma_5 and ma_20 and current_rate > 0
MovingAverageGate(td) ==
    /\ Truthy(td.moving_average_5)
    /\ Truthy(td.moving_average_20)
    /\ td.current_rate > 0

\* if ma_20 and ma_50
LongTermGate(td) == Truthy(td.moving_average_20) /\ Truthy(td.moving_average_50)

technical_accumulator(td) ==
    LET ma_5 == td.moving_average_5
        ma_20 == td.moving_average_20
        ma_50 == td.moving_average_50
        first == MovingAverageGate(td)
        second == LongTermGate(td)
        s1 == IF first
              THEN Signal(td.current_rate, Val(ma_20), 3)
                   + Signal(Val(ma_5), Val(ma_20), 2)
              ELSE 0
        f1 == IF first THEN 2 ELSE 0
        s2 == IF second THEN Signal(Val(ma_20), Val(ma_50), 2) ELSE 0
        f2 == IF second THEN 1 ELSE 0
        s3 == IF td.trend_direction = "upward" THEN 3
              ELSE IF td.trend_direction = "downward" THEN -3 ELSE 0
    IN  [score |-> s1 + s2 + s3, factors |-> f1 + f2 + 1]

\* Variant: the accumulated score returned without dividing by factors.
calculate_technical_score_Unnormalized(td) ==
    Clamp(-ScoreScale, ScoreScale,
          technical_accumulator(td).score * (ScoreScale \div 10))

calculate_technical_score(td) ==
    LET acc == technical_accumulator(td)
        score == IF acc.factors > 0
                 THEN (acc.score * (ScoreScale \div 10)) \div acc.factors
                 ELSE acc.score * (ScoreScale \div 10)
    IN  Clamp(-ScoreScale, ScoreScale, score)

(***************************************************************************)
(* _calculate_sentiment_score.  A sentiment snapshot is a record           *)
(* [score, news_count, economic_events, geopolitical_events].              *)
(***************************************************************************)
\* Variant: the volume adjustment without the final clamp.
calculate_sentiment_score_Unclamped(sd) ==
    LET unit == ScoreScale \div RawScale
    IN  IF sd.news_count > 10 THEN (sd.score * unit * 12) \div 10
        ELSE IF sd.news_count < 3 THEN (sd.score * unit * 5) \div 10
        ELSE sd.score * unit

\* Variant: amplification from ten articles on, not from eleven.
calculate_sentiment_score_FromTen(sd) ==
    LET unit == ScoreScale \div RawScale
        adjusted == IF sd.news_count >= 10 THEN (sd.score * unit * 12) \div 10
                    ELSE IF sd.news_count < 3 THEN (sd.score * unit * 5) \div 10
                    ELSE sd.score * unit
    IN  Clamp(-ScoreScale, ScoreScale, adjusted)

calculate_sentiment_score(sd) ==
    LET unit == ScoreScale \div RawScale
        adjusted == IF sd.news_count > 10 THEN (sd.score * unit * 12) \div 10
                    ELSE IF sd.news_count < 3 THEN (sd.score * unit * 5) \div 10
                    ELSE sd.score * unit
    IN  Clamp(-ScoreScale, ScoreScale, adjusted)

(***************************************************************************)
(* _calculate_event_score.  An event description is modelled by the set of *)
(* keywords its lower-cased text contains, which is all the scorer reads.  *)
(***************************************************************************)
EasingKeywords == {"rate cut", "stimulus", "growth"}

TighteningKeywords == {"rate hike", "inflation", "recession"}

ConflictKeywords == {"war", "conflict", "sanctions"}

DealKeywords == {"deal", "agreement", "stability"}

\* Variant: independent tests, an event matching both lists counts twice.
economic_delta_Both(event) ==
    (IF event \cap EasingKeywords # {} THEN 2 ELSE 0)
    + (IF event \cap TighteningKeywords # {} THEN -2 ELSE 0)

economic_delta(event) ==
    IF event \cap EasingKeywords # {} THEN 2
    ELSE IF event \cap TighteningKeywords # {} THEN -2
    ELSE 0

geopolitical_delta(event) ==
    IF event \cap ConflictKeywords # {} THEN -3
    ELSE IF event \cap DealKeywords # {} THEN 2
    ELSE 0

RECURSIVE SumEconomic(_)
SumEconomic(events) ==
    IF events = <<>> THEN 0
    ELSE economic_delta(Head(events)) + SumEconomic(Tail(events))

RECURSIVE SumGeopolitical(_)
SumGeopolitical(events) ==
    IF events = <<>> THEN 0
    ELSE geopolitical_delta(Head(events)) + SumGeopolitical(Tail(events))

calculate_event_score(sd) ==
    LET score == SumEconomic(sd.economic_events)
                 + SumGeopolitical(sd.geopolitical_events)
    IN  Clamp(-ScoreScale, ScoreScale, score * (ScoreScale \div 10))

(***************************************************************************)
(* _calculate_confidence.  The result is base/10 * (0.5 + 0.5 * mean|s|),  *)
(* kept exactly as base * (3*ScoreScale + sum|s|) in units of 1/ConfScale. *)
(***************************************************************************)
IsPositive(score) == score > ScoreScale \div 10

IsNegative(score) == score < -(ScoreScale \div 10)

IsNeutral(score) == -(ScoreScale \div 10) <= score /\ score <= ScoreScale \div 10

\* Variant: agreement among the factors gives 0.8 whatever their number.
confidence_base_Flat(technical_score, sentiment_score, event_score) ==
    LET scores == <<technical_score, sentiment_score, event_score>>
        positive_scores == Cardinality({i \in 1..3 : IsPositive(scores[i])})
        negative_scores == Cardinality({i \in 1..3 : IsNegative(scores[i])})
        neutral_scores == Cardinality({i \in 1..3 : IsNeutral(scores[i])})
    IN  IF positive_scores >= 2 /\ negative_scores = 0 THEN 8
        ELSE IF negative_scores >= 2 /\ positive_scores = 0 THEN 8
        ELSE IF neutral_scores >= 2 THEN 6
        ELSE 5

confidence_base(technical_score, sentiment_score, event_score) ==
    LET scores == <<technical_score, sentiment_score, event_score>>
        positive_scores == Cardinality({i \in 1..3 : IsPositive(scores[i])})
        negative_scores == Cardinality({i \in 1..3 : IsNegative(scores[i])})
        neutral_scores == Cardinality({i \in 1..3 : IsNeutral(scores[i])})
    IN  IF positive_scores >= 2 /\ negative_scores = 0
        THEN 8 + (positive_scores - 2)
        ELSE IF negative_scores >= 2 /\ positive_scores = 0
        THEN 8 + (negative_scores - 2)
        ELSE IF neutral_scores >= 2 THEN 6
        ELSE 5

\* Variant: the mean of the signed scores, not of their magnitudes.
calculate_confidence_Signed(technical_score, sentiment_score, event_score) ==
    LET base == confidence_base(technical_score, sentiment_score, event_score)
        magnitude == technical_score + sentiment_score + event_score
    IN  Clamp(0, ConfScale, base * (3 * ScoreScale + magnitude))

\* Variant: the base scaled by 0.5 + mean|s|, the magnitude not halved.
calculate_confidence_FullMagnitude(technical_score, sentiment_score, event_score) ==
    LET base == confidence_base(technical_score, sentiment_score, event_score)
        magnitude == Abs(technical_score) + Abs(sentiment_score) + Abs(event_score)
    IN  Clamp(0, ConfScale, base * (3 * ScoreScale + 2 * magnitude))

calculate_confidence(technical_score, sentiment_score, event_score) ==
    LET base == confidence_base(technical_score, sentiment_score, event_score)
        magnitude == Abs(technical_score) + Abs(sentiment_score) + Abs(event_score)
    IN  Clamp(0, ConfScale, base * (3 * ScoreScale + magnitude))

(***************************************************************************)
(* _generate_justification.  The text is modelled line by line: each line  *)
(* is a tuple of its fixed wording and the values formatted into it.  A    *)
(* number formatted with "{:.nf}" is its sign and its magnitude rounded    *)
(* half-to-even to n decimals.                                             *)
(***************************************************************************)
RoundDiv(n, d) ==
    LET q == n \div d
        r == n % d
    IN  IF 2 * r > d THEN q + 1
        ELSE IF 2 * r = d THEN (IF q % 2 = 0 THEN q ELSE q + 1)
        ELSE q

\* x/scale printed with the digits of units of 1/(scale * num / den)
Fmt(x, num, den) ==
    [sign |-> IF x < 0 THEN "-" ELSE "", digits |-> RoundDiv(Abs(x) * num, den)]

Title(trend) ==
    CASE trend = "upward" -> "Upward"
      [] trend = "downward" -> "Downward"
      [] trend = "neutral" -> "Neutral"
      [] trend = "unknown" -> "Unknown"
      [] OTHER -> trend

Upper(recommendation) ==
    CASE recommendation = "buy" -> "BUY"
      [] recommendation = "sell" -> "SELL"
      [] OTHER -> "HOLD"

Take(s, n) == SubSeq(s, 1, IF Len(s) < n THEN Len(s) ELSE n)

RECURSIVE Bullets(_)
Bullets(events) ==
    IF events = <<>> THEN <<>>
    ELSE <<(<<"bullet", Head(events)>>)>> \o Bullets(Tail(events))

\* Variant: the sentiment line is added to the hold paragraph as well.
final_reasoning_HoldToo(recommendation, sentiment_score) ==
    IF recommendation = "buy"
    THEN <<(<<"Multiple factors align to suggest upward price movement">>),
           (<<"Technical indicators show bullish signals">>)>>
         \o (IF sentiment_score > 0
             THEN <<(<<"Positive market sentiment supports buying">>)>>
             ELSE <<>>)
    ELSE IF recommendation = "sell"
    THEN <<(<<"Multiple factors align to suggest downward price movement">>),
           (<<"Technical indicators show bearish signals">>)>>
         \o (IF sentiment_score < 0
             THEN <<(<<"Negative market sentiment supports selling">>)>>
             ELSE <<>>)
    ELSE <<(<<"Mixed signals suggest maintaining current position">>),
           (<<"Wait for clearer market direction before taking action">>)>>
         \o (IF sentiment_score > 0
             THEN <<(<<"Positive market sentiment supports buying">>)>>
             ELSE <<>>)

final_reasoning(recommendation, sentiment_score) ==
    IF recommendation = "buy"
    THEN <<(<<"Multiple factors align to suggest upward price movement">>),
           (<<"Technical indicators show bullish signals">>)>>
         \o (IF sentiment_score > 0
             THEN <<(<<"Positive market sentiment supports buying">>)>>
             ELSE <<>>)
    ELSE IF recommendation = "sell"
    THEN <<(<<"Multiple factors align to suggest downward price movement">>),
           (<<"Technical indicators show bearish signals">>)>>
         \o (IF sentiment_score < 0
             THEN <<(<<"Negative market sentiment supports selling">>)>>
             ELSE <<>>)
    ELSE <<(<<"Mixed signals suggest maintaining current position">>),
           (<<"Wait for clearer market direction before taking action">>)>>

generate_justification(currency_pair, recommendation, td, sd, technical_score, sentiment_score, event_score, overall_score) ==
    LET ma_20 == td.moving_average_20
        raw == sd.score
        ScoreStep == ScoreScale \div 1000
    IN  <<(<<"Recommendation", Upper(recommendation), currency_pair>>),
          (<<"Overall Score", Fmt(overall_score, 1, OverallScale \div 1000)>>),
          (<<"Technical Analysis">>),
          (<<"Current Rate", Fmt(td.current_rate, 10000 \div PriceScale, 1)>>)>>
        \o (IF Truthy(ma_20)
            THEN <<(<<"20-Day Moving Average",
                      Fmt(Val(ma_20), 10000 \div PriceScale, 1)>>),
                   (IF td.current_rate > Val(ma_20)
                    THEN <<"Price is above MA20, indicating bullish momentum">>
                    ELSE <<"Price is below MA20, indicating bearish momentum">>)>>
            ELSE <<>>)
        \o <<(<<"Trend Direction", Title(td.trend_direction)>>),
             (<<"Technical Score", Fmt(technical_score, 1, ScoreStep)>>),
             (<<"Sentiment Analysis">>),
             (<<"News Articles Analyzed", sd.news_count>>),
             (<<"Sentiment Score", Fmt(raw, 1000 \div RawScale, 1)>>),
             (IF raw > RawScale \div 10 THEN <<"Market sentiment is positive">>
              ELSE IF raw < -(RawScale \div 10)
              THEN <<"Market sentiment is negative">>
              ELSE <<"Market sentiment is neutral">>),
             (<<"Weighted Sentiment Score", Fmt(sentiment_score, 1, ScoreStep)>>),
             (<<"Event Analysis">>)>>
        \o (IF sd.economic_events # <<>>
            THEN <<(<<"Economic Events", Len(sd.economic_events)>>)>>
                 \o Bullets(Take(sd.economic_events, 2))
            ELSE <<>>)
        \o (IF sd.geopolitical_events # <<>>
            THEN <<(<<"Geopolitical Events", Len(sd.geopolitical_events)>>)>>
                 \o Bullets(Take(sd.geopolitical_events, 2))
            ELSE <<>>)
        \o <<(<<"Event Impact Score", Fmt(event_score, 1, ScoreStep)>>),
             (<<"Final Reasoning">>)>>
        \o final_reasoning(recommendation, sentiment_score)

(***************************************************************************)
(* generate_recommendation                                                 *)
(***************************************************************************)
overall_score_of(technical_score, sentiment_score, event_score) ==
    technical_score * weights.technical
    + sentiment_score * weights.sentiment
    + event_score * weights.events

recommendation_result(currency_pair, td, sd) ==
    LET technical_score == calculate_technical_score(td)
        sentiment_score == calculate_sentiment_score(sd)
        event_score == calculate_event_score(sd)
        overall_score == overall_score_of(technical_score, sentiment_score,
                                          event_score)
        recommendation == determine_recommendation(overall_score)
        confidence == calculate_confidence(technical_score, sentiment_score,
                                           event_score)
    IN  [recommendation |-> recommendation,
         confidence_score |-> confidence,
         overall_score |-> overall_score,
         technical_score |-> technical_score,
         sentiment_score |-> sentiment_score,
         event_score |-> event_score,
         justification |->
             generate_justification(currency_pair, recommendation, td, sd,
                                    technical_score, sentiment_score,
                                    event_score, overall_score)]

\* Python raises TypeError when None reaches a comparison or a float format.
\* The synthesis compares and formats the averages only behind its gates, so
\* it raises exactly when a gate lets an absent average through.
synthesis_raises(td, sd) ==
    \/ /\ MovingAverageGate(td)
       /\ (td.moving_average_5 = None \/ td.moving_average_20 = None)
    \/ /\ LongTermGate(td)
       /\ (td.moving_average_20 = None \/ td.moving_average_50 = None)

\* Variant: synthesis that rebalances the stored weights as it goes.
generate_recommendation_Rebalancing(currency_pair, td, sd) ==
    /\ call' = Outcome("generate_recommendation", <<currency_pair, td, sd>>,
                       FALSE, recommendation_result(currency_pair, td, sd))
    /\ weights' = [technical |-> weights.sentiment,
                   sentiment |-> weights.technical,
                   events |-> weights.events]
    /\ UNCHANGED <<buy_threshold, sell_threshold, inputs, route, threads, services>>

generate_recommendation(currency_pair, td, sd) ==
    /\ call' = IF synthesis_raises(td, sd)
               THEN Outcome("generate_recommendation", <<currency_pair, td, sd>>,
                            TRUE, None)
               ELSE Outcome("generate_recommendation", <<currency_pair, td, sd>>,
                            FALSE, recommendation_result(currency_pair, td, sd))
    /\ UNCHANGED <<config, inputs, route, threads, services>>

(***************************************************************************)
(* ForexAPIService.calculate_moving_averages.  The time series is the      *)
(* provider's dict in iteration order: a sequence of [date, close] with    *)
(* distinct dates; the empty sequence stands for None and for {}, which    *)
(* the code treats alike (both falsy).                                     *)
(***************************************************************************)
\* Variant: the closes in dict order, without the sort by date.
SortedCloses_AsGiven(ts) == [i \in 1..Len(ts) |-> ts[i].close]

\* df.sort_values('date')['close']: each close paired with the number of
\* earlier rows (dates are distinct dict keys), read off in that order.
SortedCloses(ts) ==
    LET ranked == {<<Cardinality({m \in 1..Len(ts) : ts[m].date < ts[k].date}),
                     ts[k].close>> : k \in 1..Len(ts)}
    IN  [i \in 1..Len(ts) |-> (CHOOSE p \in ranked : p[1] = i - 1)[2]]

RECURSIVE SumLast(_, _)
SumLast(closes, n) ==
    IF n = 0 THEN 0
    ELSE closes[Len(closes) + 1 - n] + SumLast(closes, n - 1)

\* Variant: rolling(window, min_periods=1), a mean over the rows there are.
RollingMean_Partial(closes, window) ==
    LET n == IF Len(closes) < window THEN Len(closes) ELSE window
    IN  Some(SumLast(closes, n) \div n)

\* df['close'].rolling(window).mean() at the latest row; NaN becomes None
RollingMean(closes, window) ==
    IF Len(closes) < window THEN None
    ELSE Some(SumLast(closes, window) \div window)

\* Variant: momentum read from the latest close and the one before it.
trend_of_Latest(closes) ==
    LET n == Len(closes)
        current_price == closes[n]
        ma_20 == Val(RollingMean(closes, 20))
    IN  IF n >= 20
        THEN IF current_price > ma_20 /\ closes[n] > closes[n - 1]
             THEN "upward"
             ELSE IF current_price < ma_20 /\ closes[n] < closes[n - 1]
             THEN "downward"
             ELSE "neutral"
        ELSE "neutral"

trend_of(closes) ==
    LET n == Len(closes)
        current_price == closes[n]
        ma_20 == Val(RollingMean(closes, 20))
    IN  IF n >= 20
        THEN IF current_price > ma_20 /\ closes[n - 1] > closes[n - 2]
             THEN "upward"
             ELSE IF current_price < ma_20 /\ closes[n - 1] < closes[n - 2]
             THEN "downward"
             ELSE "neutral"
        ELSE "neutral"

EmptyDict == [empty |-> TRUE]

\* Variant: no early return, an empty series yields a record of absent values.
calculate_moving_averages_Unguarded(time_series_data) ==
    IF time_series_data = <<>>
    THEN [empty |-> FALSE,
          moving_average_5 |-> None,
          moving_average_20 |-> None,
          moving_average_50 |-> None,
          trend_direction |-> "neutral",
          current_price |-> 0]
    ELSE LET closes == SortedCloses(time_series_data)
         IN  [empty |-> FALSE,
              moving_average_5 |-> RollingMean(closes, 5),
              moving_average_20 |-> RollingMean(closes, 20),
              moving_average_50 |-> RollingMean(closes, 50),
              trend_direction |-> trend_of(closes),
              current_price |-> closes[Len(closes)]]

calculate_moving_averages(time_series_data) ==
    IF time_series_data = <<>> THEN EmptyDict
    ELSE LET closes == SortedCloses(time_series_data)
         IN  [empty |-> FALSE,
              moving_average_5 |-> RollingMean(closes, 5),
              moving_average_20 |-> RollingMean(closes, 20),
              moving_average_50 |-> RollingMean(closes, 50),
              trend_direction |-> trend_of(closes),
              current_price |-> closes[Len(closes)]]

(***************************************************************************)
(* ForexAPIService.get_technical_analysis, given the two fetch results:    *)
(* the spot quote (None, or Some(rate)) and the time series.               *)
(***************************************************************************)
technical_analysis(current_rate, series) ==
    IF current_rate = None \/ series = <<>>
    THEN [current_rate |-> 0,
          moving_average_5 |-> None,
          moving_average_20 |-> None,
          moving_average_50 |-> None,
          trend_direction |-> "unknown"]
    ELSE LET data == calculate_moving_averages(series)
         IN  [current_rate |-> Val(current_rate),
              moving_average_5 |->
                  IF data.empty THEN None ELSE data.moving_average_5,
              moving_average_20 |->
                  IF data.empty THEN None ELSE data.moving_average_20,
              moving_average_50 |->
                  IF data.empty THEN None ELSE data.moving_average_50,
              trend_direction |->
                  IF data.empty THEN "unknown" ELSE data.trend_direction]

get_technical_analysis ==
    /\ technical_data = None
    /\ technical_data' = Some(technical_analysis(exchange_rate, time_series))
    /\ call' = Outcome("get_technical_analysis", <<>>, FALSE, None)
    /\ UNCHANGED <<config, news_articles, time_series, exchange_rate, sentiment_data, route, threads, services>>

(***************************************************************************)
(* POST /analyze (api/routes.py).  The handler is split where it awaits:   *)
(* validation, the technical fetch, the news fetch with its sentiment       *)
(* analysis, the synthesis, and the database commit.  analyze.completed     *)
(* records the awaits that have returned.                                   *)
(***************************************************************************)
NoRequest ==
    [pc |-> "idle", currency_pair |-> "", completed |-> {}, status |-> 0]

\* str.upper() on the currency codes that are submitted
ToUpper(code) ==
    CASE code = "eur" -> "EUR"
      [] code = "usd" -> "USD"
      [] OTHER -> code

\* The handler's two format checks on the parts of currency_pair.split('/')
InvalidPair(currencies) ==
    \/ Len(currencies) = 1
    \/ Len(currencies) # 2
    \/ Len(currencies[1]) # 3
    \/ Len(currencies[2]) # 3

Respond(status) == [analyze EXCEPT !.pc = "done", !.status = status]

AnalyzeStart(parts) ==
    /\ analyze.pc = "idle"
    /\ LET currencies == [i \in 1..Len(parts) |-> ToUpper(parts[i])]
       IN  analyze' =
               IF InvalidPair(currencies) THEN Respond(400)
               ELSE [analyze EXCEPT !.pc = "technical",
                                    !.currency_pair =
                                        currencies[1] \o "/" \o currencies[2]]
    /\ UNCHANGED <<config, call, inputs, api_key, threads, services>>

\* Variant: the handler goes on with the sentinel snapshot.
ShortCircuits_Never(td) == FALSE

\* if technical_data['current_rate'] == 0: raise HTTPException(503)
ShortCircuits(td) == td.current_rate = 0

\* get_exchange_rate raises ValueError without an API key, which the handler
\* turns into a 500; otherwise get_technical_analysis returns a snapshot.
AnalyzeTechnical ==
    /\ analyze.pc = "technical"
    /\ IF ~api_key
       THEN /\ analyze' = Respond(500)
            /\ UNCHANGED <<call, technical_data, services>>
       ELSE LET td == technical_analysis(exchange_rate, time_series)
            IN  /\ technical_data' = Some(td)
                /\ call' = Outcome("get_technical_analysis", <<>>, FALSE, None)
                /\ analyze' =
                       IF ShortCircuits(td)
                       THEN [Respond(503) EXCEPT
                                !.completed = analyze.completed \cup {"technical"}]
                       ELSE [analyze EXCEPT
                                !.pc = "news",
                                !.completed = analyze.completed \cup {"technical"}]
    /\ UNCHANGED <<config, news_articles, time_series, exchange_rate, sentiment_data, api_key, threads, services>>

\* Variant: the news fetch is started but the handler does not wait for it.
AnalyzeNews_Unawaited(sd) ==
    /\ analyze.pc = "news"
    /\ analyze' = [analyze EXCEPT !.pc = "synthesize"]
    /\ UNCHANGED <<config, call, inputs, api_key, threads, services>>

\* await fetch_news_articles, then analyze_sentiment on what it returned
AnalyzeNews(sd) ==
    /\ analyze.pc = "news"
    /\ sentiment_data' = sd
    /\ analyze' = [analyze EXCEPT !.pc = "synthesize",
                                  !.completed = analyze.completed \cup {"news"}]
    /\ UNCHANGED <<config, call, news_articles, time_series, exchange_rate, technical_data,
                   api_key, threads, services>>

AnalyzeSynthesize ==
    /\ analyze.pc = "synthesize"
    /\ call' = Outcome("generate_recommendation",
                       <<analyze.currency_pair, Val(technical_data), sentiment_data>>,
                       FALSE,
                       recommendation_result(analyze.currency_pair,
                                             Val(technical_data), sentiment_data))
    /\ analyze' = [analyze EXCEPT !.pc = "persist"]
    /\ UNCHANGED <<config, inputs, api_key, threads, services>>

\* The session's committed rows: the forex_recommendations rows and the
\* number of news_articles rows.
NoRows == [recommendations |-> <<>>, articles |-> 0]

\* db.add(db_recommendation); db.commit(); db.refresh(db_recommendation):
\* the commit either stores the row or raises, and the handler answers 500.
AnalyzePersist(committed) ==
    /\ analyze.pc = "persist"
    /\ IF committed
       THEN /\ db' = [db EXCEPT !.recommendations =
                         Append(@, [currency_pair |-> analyze.currency_pair,
                                    recommendation |-> call.result.recommendation])]
            /\ analyze' = [analyze EXCEPT !.pc = "articles"]
       ELSE /\ analyze' = Respond(500)
            /\ UNCHANGED db
    /\ UNCHANGED <<config, call, inputs, api_key, threads, limiter, memory_cache, metrics>>

\* news_articles[:10]
ArticlesSaved(news_count) == IF news_count > 10 THEN 10 ELSE news_count

\* db.add(db_article) for the first ten articles, then the second
\* db.commit(): it either stores them, and the response is returned, or
\* raises, and the handler answers 500.
AnalyzeArticles(committed) ==
    /\ analyze.pc = "articles"
    /\ IF committed
       THEN /\ db' = [db EXCEPT !.articles = @ + ArticlesSaved(sentiment_data.news_count)]
            /\ analyze' = Respond(200)
       ELSE /\ analyze' = Respond(500)
            /\ UNCHANGED db
    /\ UNCHANGED <<config, call, inputs, api_key, threads, limiter, memory_cache, metrics>>

(***************************************************************************)
(* The engine's methods statement by statement, for callers on different   *)
(* threads.  The engine takes no lock and keeps no snapshot: an update     *)
(* validates and then stores its fields one assignment at a time, and a     *)
(* synthesis reads self.weights three times, left to right, and then        *)
(* self.buy_threshold and, if the score is below it, self.sell_threshold.   *)
(* threads.synth.complete collects the complete configurations that were    *)
(* current at some moment of the synthesis in flight.                       *)
(***************************************************************************)
CurrentConfig ==
    [weights |-> weights, buy_threshold |-> buy_threshold,
     sell_threshold |-> sell_threshold]

NoThreads ==
    [updater |-> [pc |-> "idle", old |-> None, target |-> None],
     synth |-> [pc |-> "idle", scores |-> <<>>, read |-> <<>>, complete |-> {},
                recommendation |-> ""]]

InFlight == threads.synth.pc \notin {"idle", "returned"}

\* The number of complete configurations one synthesis is followed through.
MaxConfigs == 2

\* An accepted update begins: its target becomes a configuration the
\* synthesis in flight may see.
BeginUpdate(first, target) ==
    /\ InFlight => Cardinality(threads.synth.complete) < MaxConfigs
    /\ threads' = [threads EXCEPT
                      !.updater = [pc |-> first, old |-> Some(CurrentConfig),
                                   target |-> Some(target)],
                      !.synth.complete = IF InFlight THEN @ \cup {target} ELSE @]

CallUpdateWeights(technical_weight, sentiment_weight, event_weight) ==
    /\ threads.updater.pc = "idle"
    /\ ~WeightsRejected(technical_weight, sentiment_weight, event_weight)
    /\ BeginUpdate("technical",
                   [CurrentConfig EXCEPT
                       !.weights = [technical |-> technical_weight,
                                    sentiment |-> sentiment_weight,
                                    events |-> event_weight]])
    /\ UNCHANGED <<config, call, inputs, route, services>>

CallUpdateThresholds(buy, sell) ==
    /\ threads.updater.pc = "idle"
    /\ ~ThresholdsRejected(buy, sell)
    /\ BeginUpdate("buy_threshold",
                   [CurrentConfig EXCEPT !.buy_threshold = buy,
                                         !.sell_threshold = sell])
    /\ UNCHANGED <<config, call, inputs, route, services>>

\* One assignment of the update in flight.
Assign ==
    LET pc == threads.updater.pc
        target == Val(threads.updater.target)
        next == CASE pc = "technical" -> "sentiment"
                  [] pc = "sentiment" -> "events"
                  [] OTHER -> IF pc = "buy_threshold" THEN "sell_threshold" ELSE "idle"
    IN  /\ pc # "idle"
        /\ weights' =
               IF pc = "technical"
               THEN [weights EXCEPT !.technical = target.weights.technical]
               ELSE IF pc = "sentiment"
               THEN [weights EXCEPT !.sentiment = target.weights.sentiment]
               ELSE IF pc = "events"
               THEN [weights EXCEPT !.events = target.weights.events]
               ELSE weights
        /\ buy_threshold' =
               IF pc = "buy_threshold" THEN target.buy_threshold ELSE buy_threshold
        /\ sell_threshold' =
               IF pc = "sell_threshold" THEN target.sell_threshold ELSE sell_threshold
        /\ threads' = [threads EXCEPT
                          !.updater = IF next = "idle" THEN NoThreads.updater
                                      ELSE [@ EXCEPT !.pc = next]]
        /\ UNCHANGED <<call, inputs, route, services>>

\* generate_recommendation is entered: the three factor scores are computed,
\* none of which reads the configuration.
CallGenerate(td, sd) ==
    /\ threads.synth.pc = "idle"
    /\ threads' = [threads EXCEPT
                      !.synth = [pc |-> "technical",
                                 scores |-> <<calculate_technical_score(td),
                                              calculate_sentiment_score(sd),
                                              calculate_event_score(sd)>>,
                                 read |-> <<>>,
                                 complete |->
                                     IF threads.updater.pc = "idle"
                                     THEN {CurrentConfig}
                                     ELSE {Val(threads.updater.old),
                                           Val(threads.updater.target)},
                                 recommendation |-> ""]]
    /\ UNCHANGED <<config, call, inputs, route, services>>

\* The overall score from the three weights read so far.
OverallRead(scores, read) ==
    scores[1] * read[1] + scores[2] * read[2] + scores[3] * read[3]

\* One read of the configuration by the synthesis in flight.
Read ==
    LET pc == threads.synth.pc
        scores == threads.synth.scores
        read == threads.synth.read
    IN  /\ InFlight
        /\ threads' =
               CASE pc = "technical" ->
                        [threads EXCEPT !.synth.pc = "sentiment",
                                        !.synth.read = Append(read, weights.technical)]
                 [] pc = "sentiment" ->
                        [threads EXCEPT !.synth.pc = "events",
                                        !.synth.read = Append(read, weights.sentiment)]
                 [] pc = "events" ->
                        [threads EXCEPT !.synth.pc = "buy_threshold",
                                        !.synth.read = Append(read, weights.events)]
                 [] pc = "buy_threshold" ->
                        IF OverallRead(scores, read) >= buy_threshold
                        THEN [threads EXCEPT
                                 !.synth.pc = "returned",
                                 !.synth.read = Append(read, buy_threshold),
                                 !.synth.recommendation = "buy"]
                        ELSE [threads EXCEPT
                                 !.synth.pc = "sell_threshold",
                                 !.synth.read = Append(read, buy_threshold)]
                 [] pc = "sell_threshold" ->
                        [threads EXCEPT
                            !.synth.pc = "returned",
                            !.synth.read = Append(read, sell_threshold),
                            !.synth.recommendation =
                                IF OverallRead(scores, read) <= sell_threshold
                                THEN "sell" ELSE "hold"]
        /\ UNCHANGED <<config, call, inputs, route, services>>

\* The caller takes the result; the thread is free for another synthesis.
Return ==
    /\ threads.synth.pc = "returned"
    /\ threads' = [threads EXCEPT !.synth = NoThreads.synth]
    /\ UNCHANGED <<config, call, inputs, route, services>>

(***************************************************************************)
(* RateLimitMiddleware (middleware/security.py).  Time is time.time() in    *)
(* whole seconds.  limiter.requests is the dict of accepted timestamps per  *)
(* client; limiter.passed records, per client, the time of every non-health *)
(* request handed to call_next, and limiter.last the dispatch just served.  *)
(***************************************************************************)
Window == 60

HealthPaths == {"/health", "/api/v1/health"}

NoDispatch == [client_ip |-> "", path |-> "", at |-> 0, status |-> 0, seen |-> 0]

\* an empty dict
NoEntries == [k \in {} |-> <<>>]

NewLimiter ==
    [requests_per_minute |-> Window, clock |-> 0, requests |-> NoEntries,
     blocked_ips |-> {}, passed |-> NoEntries, last |-> NoDispatch]

\* request.headers.get("X-Forwarded-For") split on "," and stripped, then
\* X-Real-IP, then request.client.host, then "unknown"
get_client_ip(request) ==
    IF request.forwarded_for # None /\ Val(request.forwarded_for) # <<>>
    THEN Val(request.forwarded_for)[1]
    ELSE IF request.real_ip # None THEN Val(request.real_ip)
    ELSE IF request.host # None THEN Val(request.host)
    ELSE "unknown"

\* self.requests.get(client_ip), with a missing key read as the empty list
TimesOf(requests, client_ip) ==
    IF client_ip \in DOMAIN requests THEN requests[client_ip] ELSE <<>>

\* [req_time for req_time in times if req_time > minute_ago]
StillInWindow(times, current_time) ==
    LET minute_ago == current_time - Window
        kept(t) == t > minute_ago
    IN SelectSeq(times, kept)

AtLimit_Over(times, requests_per_minute) == Len(times) > requests_per_minute

\* len(self.requests[client_ip]) >= self.requests_per_minute
AtLimit(times, requests_per_minute) == Len(times) >= requests_per_minute

AfterRejection_Recorded(times, current_time) == Append(times, current_time)

\* the rejecting branch returns before the append
AfterRejection(times, current_time) == times

Store(dict, key, value) ==
    [k \in DOMAIN dict \cup {key} |-> IF k = key THEN value ELSE dict[k]]

\* is_rate_limited: the verdict with the instance's fields after the call
is_rate_limited(self, client_ip, current_time) ==
    LET cleaned == StillInWindow(TimesOf(self.requests, client_ip), current_time)
        limited == AtLimit(cleaned, self.requests_per_minute)
    IN [limited |-> limited,
        requests |-> Store(self.requests, client_ip,
                           IF limited THEN AfterRejection(cleaned, current_time)
                           ELSE Append(cleaned, current_time)),
        blocked_ips |-> IF limited THEN self.blocked_ips \cup {client_ip}
                        ELSE self.blocked_ips]

\* how many of the times lie less than a window before current_time
AcceptedSince(times, current_time) ==
    Cardinality({i \in DOMAIN times : current_time - times[i] < Window})

\* dispatch, reading time.time() as elapsed seconds after the last reading;
\* last.seen counts the client's passed requests of the preceding window
dispatch(request, elapsed) ==
    LET current_time == limiter.clock + elapsed
        client_ip == get_client_ip(request)
        seen == AcceptedSince(TimesOf(limiter.passed, client_ip), current_time)
        served(status) == [client_ip |-> client_ip, path |-> request.path,
                           at |-> current_time, status |-> status, seen |-> seen]
        verdict == is_rate_limited(limiter, client_ip, current_time)
    IN /\ limiter' =
            IF request.path \in HealthPaths
            THEN [limiter EXCEPT !.clock = current_time, !.last = served(200)]
            ELSE [limiter EXCEPT
                     !.clock = current_time,
                     !.requests = verdict.requests,
                     !.blocked_ips = verdict.blocked_ips,
                     !.passed = IF verdict.limited THEN @
                                ELSE Store(@, client_ip,
                                           Append(TimesOf(@, client_ip), current_time)),
                     !.last = served(IF verdict.limited THEN 429 ELSE 200)]
       /\ UNCHANGED <<config, call, inputs, route, threads, memory_cache, metrics, db>>

(***************************************************************************)
(* CacheManager in memory-fallback mode (core/cache.py): is_connected is    *)
(* False, so every operation works on self.memory_cache.  The dict is the   *)
(* sequence of its items in insertion order; a key is the pair of its       *)
(* prefix and the digest that _generate_key appends after the colon.        *)
(* memory_cache.last is the operation just performed, with the items it     *)
(* found and the keys it removed; memory_cache.ops counts operations.       *)
(***************************************************************************)
MaxEntries == 100

EvictCount == 20

NoCacheCall ==
    [op |-> "", key |-> <<>>, value |-> "", result |-> None, found |-> <<>>,
     removed |-> <<>>]

EmptyCache == [items |-> <<>>, ops |-> 0, last |-> NoCacheCall]

Keys(items) == [i \in DOMAIN items |-> items[i].key]

HasKey(items, key) == \E i \in DOMAIN items : items[i].key = key

\* dict.get(key): the value under the key, or None
Lookup(items, key) ==
    IF HasKey(items, key)
    THEN Some(items[CHOOSE i \in DOMAIN items : items[i].key = key].value)
    ELSE None

\* d[key] = value: a present key keeps its place, a new one goes last
Assigned(items, key, value) ==
    IF HasKey(items, key)
    THEN [i \in DOMAIN items |->
             IF items[i].key = key THEN [key |-> key, value |-> value] ELSE items[i]]
    ELSE Append(items, [key |-> key, value |-> value])

\* the items without the keys of the set
Without(items, keys) ==
    LET kept(item) == item.key \notin keys
    IN SelectSeq(items, kept)

\* json.dumps(value, default=str) raises on a value that refers to itself
Serializable(value) == value # "cyclic"

OverCapacity_Never(items) == FALSE

\* len(self.memory_cache) > 100
OverCapacity(items) == Len(items) > MaxEntries

KeysToRemove_Newest(items) ==
    {items[i].key : i \in (Len(items) - EvictCount + 1)..Len(items)}

\* list(self.memory_cache.keys())[:20]
KeysToRemove(items) == {items[i].key : i \in 1..EvictCount}

CacheOutcome(op, key, value, result, items) ==
    [items |-> items, ops |-> memory_cache.ops + 1,
     last |-> [op |-> op, key |-> key, value |-> value, result |-> result,
               found |-> Keys(memory_cache.items),
               removed |-> {memory_cache.items[i].key : i \in DOMAIN memory_cache.items}
                           \ {items[i].key : i \in DOMAIN items}]]

\* CacheManager.get
get(key) ==
    /\ memory_cache' = CacheOutcome("get", key, "", Lookup(memory_cache.items, key),
                                    memory_cache.items)
    /\ UNCHANGED <<config, call, inputs, route, threads, limiter, metrics, db>>

\* CacheManager.set: True, or False when the value cannot be serialized
set(key, value) ==
    /\ memory_cache' =
           IF ~Serializable(value)
           THEN CacheOutcome("set", key, value, Some(FALSE), memory_cache.items)
           ELSE LET stored == Assigned(memory_cache.items, key, value)
                IN CacheOutcome("set", key, value, Some(TRUE),
                                IF OverCapacity(stored)
                                THEN Without(stored, KeysToRemove(stored))
                                ELSE stored)
    /\ UNCHANGED <<config, call, inputs, route, threads, limiter, metrics, db>>

\* CacheManager.delete: self.memory_cache.pop(key, None)
delete(key) ==
    /\ memory_cache' = CacheOutcome("delete", key, "", Some(TRUE),
                                    Without(memory_cache.items, {key}))
    /\ UNCHANGED <<config, call, inputs, route, threads, limiter, metrics, db>>

\* CacheManager.clear_prefix: removes the keys that start with "prefix:"
clear_prefix(prefix) ==
    /\ LET keys_to_remove ==
               {memory_cache.items[i].key : i \in
                   {j \in DOMAIN memory_cache.items : memory_cache.items[j].key[1] = prefix}}
       IN memory_cache' = CacheOutcome("clear_prefix", <<prefix>>, "",
                                       Some(Cardinality(keys_to_remove)),
                                       Without(memory_cache.items, keys_to_remove))
    /\ UNCHANGED <<config, call, inputs, route, threads, limiter, metrics, db>>

(***************************************************************************)
(* MetricsCollector (core/monitoring.py).  Durations are in milliseconds.   *)
(* metrics.history is every duration recorded since the last reset, and     *)
(* metrics.ops counts the calls made.                                       *)
(***************************************************************************)
MaxDurations == 1000

NewMetrics ==
    [request_count |-> 0, request_duration_sum |-> 0, request_durations |-> <<>>,
     error_count |-> 0, api_call_count |-> 0, api_error_count |-> 0,
     recommendation_count |-> 0, currency_pairs_analyzed |-> NoEntries,
     history |-> <<>>, ops |-> 0]

Trimmed_Oldest(durations) ==
    IF Len(durations) > MaxDurations THEN SubSeq(durations, 1, MaxDurations)
    ELSE durations

\* if len(...) > 1000: self.request_durations = self.request_durations[-1000:]
Trimmed(durations) ==
    IF Len(durations) > MaxDurations
    THEN SubSeq(durations, Len(durations) - MaxDurations + 1, Len(durations))
    ELSE durations

\* the fields after record_request(duration, status_code)
RequestRecorded(self, duration, status_code) ==
    [self EXCEPT
        !.request_count = @ + 1,
        !.request_duration_sum = @ + duration,
        !.request_durations = Trimmed(Append(@, duration)),
        !.error_count = IF status_code >= 400 THEN @ + 1 ELSE @,
        !.history = Append(@, duration)]

record_request(duration, status_code) ==
    /\ metrics' = [RequestRecorded(metrics, duration, status_code) EXCEPT !.ops = @ + 1]
    /\ UNCHANGED <<config, call, inputs, route, threads, limiter, memory_cache, db>>

record_api_call(success) ==
    /\ metrics' = [metrics EXCEPT
                      !.api_call_count = @ + 1,
                      !.api_error_count = IF ~success THEN @ + 1 ELSE @,
                      !.ops = @ + 1]
    /\ UNCHANGED <<config, call, inputs, route, threads, limiter, memory_cache, db>>

record_recommendation(currency_pair) ==
    /\ metrics' = [metrics EXCEPT
                      !.recommendation_count = @ + 1,
                      !.currency_pairs_analyzed =
                          IF currency_pair \in DOMAIN @
                          THEN Store(@, currency_pair, @[currency_pair] + 1)
                          ELSE Store(@, currency_pair, 1),
                      !.ops = @ + 1]
    /\ UNCHANGED <<config, call, inputs, route, threads, limiter, memory_cache, db>>

\* reset_metrics: self.__init__()
reset_metrics ==
    /\ metrics' = [NewMetrics EXCEPT !.ops = metrics.ops + 1]
    /\ UNCHANGED <<config, call, inputs, route, threads, limiter, memory_cache, db>>

(***************************************************************************)
(* NewsSentimentService.analyze_sentiment (services/news_sentiment.py).     *)
(* An article is [title, keywords, blank, polarity]: keywords is the set of *)
(* event keywords that occur in its lower-cased title and content, blank    *)
(* says that both are empty, polarity is TextBlob's score in thousandths.   *)
(* An event text "<Keyword> mentioned in: <title[:50]>..." is kept as its   *)
(* two parts; the modelled titles are shorter than 50 characters.           *)
(***************************************************************************)
economic_keywords ==
    <<"interest rate", "inflation", "gdp", "unemployment", "employment",
      "trade war", "tariff", "economic growth", "recession", "stimulus",
      "monetary policy", "fiscal policy", "central bank", "quantitative easing">>

geopolitical_keywords ==
    <<"war", "conflict", "sanctions", "election", "political", "trade deal",
      "diplomatic", "military", "terrorism", "coup", "brexit", "pandemic">>

Mentioned(keyword, article) == [keyword |-> keyword, title |-> article.title]

\* the positions of the list's keywords found in the article's text
Hits(article, keyword_list) ==
    {i \in DOMAIN keyword_list : keyword_list[i] \in article.keywords}

\* Variant: no break, every matching keyword of the list yields an event.
EventsOf_NoBreak(article, keyword_list) ==
    LET kept(keyword) == keyword \in article.keywords
        found == SelectSeq(keyword_list, kept)
    IN  IF article.blank THEN <<>>
        ELSE [i \in DOMAIN found |-> Mentioned(found[i], article)]

\* for keyword in keyword_list: if keyword in text_lower: append; break
EventsOf(article, keyword_list) ==
    LET hits == Hits(article, keyword_list)
        first == CHOOSE i \in hits : \A j \in hits : i <= j
    IN  IF article.blank \/ hits = {} THEN <<>>
        ELSE <<Mentioned(keyword_list[first], article)>>

\* the events appended over the loop, in article order
RECURSIVE Collected(_, _)
Collected(articles, keyword_list) ==
    IF articles = <<>> THEN <<>>
    ELSE EventsOf(Head(articles), keyword_list)
             \o Collected(Tail(articles), keyword_list)

\* the polarities appended over the loop: one per article with text
RECURSIVE Polarities(_)
Polarities(articles) ==
    IF articles = <<>> THEN <<>>
    ELSE (IF Head(articles).blank THEN <<>> ELSE <<Head(articles).polarity>>)
             \o Polarities(Tail(articles))

RECURSIVE SumOf(_)
SumOf(numbers) == IF numbers = <<>> THEN 0 ELSE Head(numbers) + SumOf(Tail(numbers))

\* round(sum(sentiment_scores) / len(sentiment_scores), 3), or 0.0
AverageSentiment(scores) ==
    IF scores = <<>> THEN 0
    ELSE LET total == SumOf(scores)
         IN  (IF total < 0 THEN -1 ELSE 1) * RoundDiv(Abs(total), Len(scores))

\* _generate_sentiment_summary, kept as the values it words
generate_sentiment_summary(sentiment_score, article_count, economic_events, geopolitical_events) ==
    [articles |-> article_count,
     sentiment |-> IF sentiment_score > RawScale \div 10 THEN "positive"
                   ELSE IF sentiment_score < -(RawScale \div 10) THEN "negative"
                   ELSE "neutral",
     score |-> sentiment_score,
     economic |-> Len(economic_events),
     geopolitical |-> Len(geopolitical_events),
     closing |-> IF sentiment_score > RawScale \div 5 THEN "support"
                 ELSE IF sentiment_score < -(RawScale \div 5) THEN "weaken"
                 ELSE "limited"]

analyze_sentiment_result(articles) ==
    IF articles = <<>>
    THEN [score |-> 0, summary |-> "No articles available for sentiment analysis",
          news_count |-> 0]
    ELSE LET economic_events == Collected(articles, economic_keywords)
             geopolitical_events == Collected(articles, geopolitical_keywords)
             avg_sentiment == AverageSentiment(Polarities(articles))
         IN  [score |-> avg_sentiment,
              summary |-> generate_sentiment_summary(avg_sentiment, Len(articles),
                                                     economic_events,
                                                     geopolitical_events),
              news_count |-> Len(articles),
              economic_events |-> Take(economic_events, 5),
              geopolitical_events |-> Take(geopolitical_events, 5)]

analyze_sentiment(articles) ==
    /\ call' = Outcome("analyze_sentiment", <<articles>>, FALSE,
                       analyze_sentiment_result(articles))
    /\ UNCHANGED <<config, inputs, route, threads, services>>

(***************************************************************************)
(* Inputs.                                                                 *)
(***************************************************************************)
MaxPrice == 2

MaxEvents == 5

MaxTail == 3

Pairs == {"EUR/USD"}

Prices == {k * PriceScale : k \in 1..MaxPrice}

Trends == {"upward", "downward", "neutral", "unknown"}

OptionalPrices == {None} \cup {Some(p) : p \in Prices}

TechnicalSnapshots ==
    [current_rate : {0} \cup Prices,
     moving_average_5 : OptionalPrices,
     moving_average_20 : OptionalPrices \cup {Some(0)},
     moving_average_50 : OptionalPrices,
     trend_direction : Trends]

RawScores == {-RawScale, -(RawScale \div 2), 0, RawScale \div 2, RawScale}

NewsCounts == {2, 3, 10, 15}

Repeat(e, n) == [i \in 1..n |-> e]

Growth == {"growth"}

Inflation == {"inflation"}

War == {"war"}

Deal == {"deal"}

EconomicLists ==
    {<<>>, <<Growth>>, Repeat(Growth, MaxEvents), Repeat(Inflation, MaxEvents),
     <<Growth \cup Inflation, {}>>}

GeopoliticalLists ==
    {<<>>, <<Deal>>, Repeat(War, MaxEvents), <<War \cup Deal, {}>>}

SentimentSnapshots ==
    [score : RawScores,
     news_count : NewsCounts,
     economic_events : EconomicLists,
     geopolitical_events : GeopoliticalLists]

\* analyze_sentiment([]): no articles, the event keys are missing
NoArticles ==
    [score |-> 0, news_count |-> 0,
     economic_events |-> <<>>, geopolitical_events |-> <<>>]

(***************************************************************************)
(* SpecScore: synthesis over every snapshot pair, default configuration.   *)
(***************************************************************************)
InitScore ==
    /\ weights = DefaultWeights
    /\ buy_threshold = DefaultBuyThreshold
    /\ sell_threshold = DefaultSellThreshold
    /\ call = NoCall
    /\ news_articles = <<>>
    /\ time_series = <<>>
    /\ exchange_rate = None
    /\ technical_data \in {Some(td) : td \in TechnicalSnapshots}
    /\ sentiment_data \in SentimentSnapshots
    /\ api_key = TRUE
    /\ analyze = NoRequest
    /\ threads = NoThreads
    /\ limiter = NewLimiter
    /\ memory_cache = EmptyCache
    /\ metrics = NewMetrics
    /\ db = NoRows

Synthesize ==
    \E currency_pair \in Pairs :
        generate_recommendation(currency_pair, Val(technical_data), sentiment_data)

NextScore == Synthesize

SpecScore == InitScore /\ [][NextScore]_vars

(***************************************************************************)
(* SpecTech: the indicator calculator on price histories, followed by      *)
(* synthesis on the snapshot it produces.  A history is a run of equal     *)
(* closes followed by a free tail, keyed by consecutive dates, in          *)
(* ascending or descending dict order.                                     *)
(***************************************************************************)
PrefixLengths == {0, 1, 2, 17, 18, 47, 48}

Tails == UNION {[1..n -> Prices] : n \in 0..MaxTail}

Closes(base, n, tail) == Repeat(base, n) \o tail

Ascending(closes) == [i \in 1..Len(closes) |-> [date |-> i, close |-> closes[i]]]

Descending(closes) ==
    [i \in 1..Len(closes) |->
        [date |-> Len(closes) + 1 - i, close |-> closes[Len(closes) + 1 - i]]]

Histories ==
    UNION {{Ascending(Closes(base, n, tail)), Descending(Closes(base, n, tail))} :
           base \in Prices, n \in PrefixLengths, tail \in Tails}

InitTech ==
    /\ weights = DefaultWeights
    /\ buy_threshold = DefaultBuyThreshold
    /\ sell_threshold = DefaultSellThreshold
    /\ call = NoCall
    /\ news_articles = <<>>
    /\ time_series \in Histories
    /\ exchange_rate \in OptionalPrices
    /\ technical_data = None
    /\ sentiment_data = NoArticles
    /\ api_key = TRUE
    /\ analyze = NoRequest
    /\ threads = NoThreads
    /\ limiter = NewLimiter
    /\ memory_cache = EmptyCache
    /\ metrics = NewMetrics
    /\ db = NoRows

SynthesizeSnapshot ==
    /\ technical_data # None
    /\ \E currency_pair \in Pairs :
           generate_recommendation(currency_pair, Val(technical_data), sentiment_data)

\* A direct call of the calculator on the history; it has no raise statement.
CalculateMovingAverages ==
    /\ call' = Outcome("calculate_moving_averages", <<>>, FALSE,
                       calculate_moving_averages(time_series))
    /\ UNCHANGED <<config, inputs, route, threads, services>>

NextTech == get_technical_analysis \/ CalculateMovingAverages \/ SynthesizeSnapshot

SpecTech == InitTech /\ [][NextTech]_vars

(***************************************************************************)
(* Spec: the engine under configuration updates, classification and        *)
(* synthesis calls in any order.                                           *)
(***************************************************************************)
WeightSamples == {-500, 0, 499, 500, 501, 1500}

ThresholdSamples ==
    {-((6 * OverallScale) \div 10), 0, (6 * OverallScale) \div 10}

\* 0.599999 and -0.599999
JustBelowBuy == 599999 * (OverallScale \div (1000 * 1000))

OverallSamples ==
    {buy_threshold - 1, buy_threshold, buy_threshold + 1,
     sell_threshold - 1, sell_threshold, sell_threshold + 1,
     JustBelowBuy, -JustBelowBuy,
     (6 * OverallScale) \div 10, -((6 * OverallScale) \div 10)}

AllUp ==
    [current_rate |-> 2 * PriceScale,
     moving_average_5 |-> Some(2 * PriceScale),
     moving_average_20 |-> Some(PriceScale),
     moving_average_50 |-> None,
     trend_direction |-> "upward"]

TechnicalSamples ==
    {AllUp,
     [AllUp EXCEPT !.moving_average_20 = Some((3 * PriceScale) \div 2),
                   !.moving_average_50 = Some(PriceScale)],
     [AllUp EXCEPT !.current_rate = PriceScale,
                   !.moving_average_5 = Some(PriceScale),
                   !.moving_average_20 = Some(2 * PriceScale),
                   !.trend_direction = "downward"],
     [AllUp EXCEPT !.current_rate = 0,
                   !.moving_average_5 = None,
                   !.moving_average_20 = None,
                   !.trend_direction = "unknown"]}

SentimentSamples ==
    {NoArticles,
     [score |-> RawScale \div 2, news_count |-> 15,
      economic_events |-> <<Growth>>, geopolitical_events |-> <<>>],
     [score |-> RawScale, news_count |-> 5,
      economic_events |-> Repeat(Growth, MaxEvents),
      geopolitical_events |-> <<Deal>>],
     [score |-> -RawScale, news_count |-> 12,
      economic_events |-> Repeat(Inflation, MaxEvents),
      geopolitical_events |-> Repeat(War, MaxEvents)]}

Init ==
    /\ weights = DefaultWeights
    /\ buy_threshold = DefaultBuyThreshold
    /\ sell_threshold = DefaultSellThreshold
    /\ call = NoCall
    /\ news_articles = <<>>
    /\ time_series = <<>>
    /\ exchange_rate = None
    /\ technical_data = None
    /\ sentiment_data = NoArticles
    /\ api_key = TRUE
    /\ analyze = NoRequest
    /\ threads = NoThreads
    /\ limiter = NewLimiter
    /\ memory_cache = EmptyCache
    /\ metrics = NewMetrics
    /\ db = NoRows

UpdateWeights ==
    \E tw \in WeightSamples, sw \in WeightSamples, ew \in WeightSamples :
        update_strategy_weights(tw, sw, ew)

UpdateThresholds ==
    \E buy \in ThresholdSamples, sell \in ThresholdSamples :
        update_thresholds(buy, sell)

Classify ==
    \E overall_score \in OverallSamples :
        /\ call' = Outcome("determine_recommendation", <<overall_score>>,
                           FALSE, determine_recommendation(overall_score))
        /\ UNCHANGED <<config, inputs, route, threads, services>>

Generate ==
    \E currency_pair \in Pairs, td \in TechnicalSamples, sd \in SentimentSamples :
        generate_recommendation(currency_pair, td, sd)

Next == UpdateWeights \/ UpdateThresholds \/ Classify \/ Generate

Spec == Init /\ [][Next]_vars

(***************************************************************************)
(* SpecRoute: one /analyze request against every provider outcome.         *)
(***************************************************************************)
RequestPairs ==
    {<<"eur", "usd">>, <<"EUR", "USD">>, <<"EURUSD">>, <<"EURO", "USD">>,
     <<"EUR", "USD", "JPY">>}

RouteHistories ==
    {<<>>,
     Ascending(Closes(PriceScale, 1, <<PriceScale, 2 * PriceScale, 2 * PriceScale>>)),
     Ascending(Closes(PriceScale, 18, <<PriceScale, 2 * PriceScale, 2 * PriceScale>>)),
     Descending(Closes(2 * PriceScale, 18, <<2 * PriceScale, PriceScale, PriceScale>>))}

InitRoute ==
    /\ weights = DefaultWeights
    /\ buy_threshold = DefaultBuyThreshold
    /\ sell_threshold = DefaultSellThreshold
    /\ call = NoCall
    /\ news_articles = <<>>
    /\ time_series \in RouteHistories
    /\ exchange_rate \in OptionalPrices
    /\ technical_data = None
    /\ sentiment_data = NoArticles
    /\ api_key \in BOOLEAN
    /\ analyze = NoRequest
    /\ threads = NoThreads
    /\ limiter = NewLimiter
    /\ memory_cache = EmptyCache
    /\ metrics = NewMetrics
    /\ db = NoRows

NextRoute ==
    \/ \E parts \in RequestPairs : AnalyzeStart(parts)
    \/ AnalyzeTechnical
    \/ \E sd \in SentimentSamples : AnalyzeNews(sd)
    \/ AnalyzeSynthesize
    \/ \E committed \in BOOLEAN : AnalyzePersist(committed)
    \/ \E committed \in BOOLEAN : AnalyzeArticles(committed)

SpecRoute == InitRoute /\ [][NextRoute]_vars

(***************************************************************************)
(* SpecThreads: one updating and one synthesizing thread on the shared     *)
(* engine, interleaved statement by statement.                             *)
(***************************************************************************)
InitThreads == Init

\* Weights within [0, 1] that sum to 1.0
WeightTriples == {<<400, 300, 300>>, <<500, 500, 0>>, <<0, 500, 500>>}

NextThreads ==
    \/ \E w \in WeightTriples : CallUpdateWeights(w[1], w[2], w[3])
    \/ \E buy \in ThresholdSamples, sell \in ThresholdSamples :
           CallUpdateThresholds(buy, sell)
    \/ Assign
    \/ \E td \in {AllUp}, sd \in SentimentSamples : CallGenerate(td, sd)
    \/ Read
    \/ Return

SpecThreads == InitThreads /\ [][NextThreads]_vars

(***************************************************************************)
(* SpecLimit: requests from several clients through the rate limiter, the   *)
(* clock advancing by nothing, half a window or a whole window in between.  *)
(***************************************************************************)
MaxRate == 2

MaxTicks == 3

Tick == Window \div 2

Elapsed == {0, Tick, Window}

Paths == {"/api/v1/analyze", "/health"}

Senders ==
    {[forwarded_for |-> Some(<<"10.0.0.1", "10.0.0.9">>), real_ip |-> Some("10.0.0.2"),
      host |-> Some("10.0.0.9")],
     [forwarded_for |-> None, real_ip |-> Some("10.0.0.1"), host |-> Some("10.0.0.9")],
     [forwarded_for |-> None, real_ip |-> None, host |-> Some("10.0.0.1")],
     [forwarded_for |-> None, real_ip |-> None, host |-> None]}

HttpRequests ==
    {[forwarded_for |-> s.forwarded_for, real_ip |-> s.real_ip, host |-> s.host,
      path |-> p] : s \in Senders, p \in Paths}

InitLimit ==
    /\ weights = DefaultWeights
    /\ buy_threshold = DefaultBuyThreshold
    /\ sell_threshold = DefaultSellThreshold
    /\ call = NoCall
    /\ news_articles = <<>>
    /\ time_series = <<>>
    /\ exchange_rate = None
    /\ technical_data = None
    /\ sentiment_data = NoArticles
    /\ api_key = TRUE
    /\ analyze = NoRequest
    /\ threads = NoThreads
    /\ limiter \in {[NewLimiter EXCEPT !.requests_per_minute = n] : n \in 1..MaxRate}
    /\ memory_cache = EmptyCache
    /\ metrics = NewMetrics
    /\ db = NoRows

Dispatch ==
    \E request \in HttpRequests, elapsed \in Elapsed :
        /\ limiter.clock + elapsed <= MaxTicks * Tick
        /\ dispatch(request, elapsed)

NextLimit == Dispatch

SpecLimit == InitLimit /\ [][NextLimit]_vars

(***************************************************************************)
(* SpecCache: a few operations on a memory cache that is empty, one short   *)
(* of full, or full.                                                        *)
(***************************************************************************)
MaxOps == 3

Prefixes == {"forex_rate", "news_articles"}

\* the i-th key written
KeyOf(i) == <<IF i % 2 = 1 THEN "forex_rate" ELSE "news_articles", i>>

\* the cache after set(KeyOf(1), "v1"), ..., set(KeyOf(n), "v1")
Filled(n) ==
    [EmptyCache EXCEPT !.items = [i \in 1..n |-> [key |-> KeyOf(i), value |-> "v1"]]]

KeySamples ==
    {KeyOf(i) : i \in {1, EvictCount, EvictCount + 1, MaxEntries, MaxEntries + 1,
                       MaxEntries + 2}}

CacheValues == {"v1", "v2", "cyclic"}

InitCache ==
    /\ weights = DefaultWeights
    /\ buy_threshold = DefaultBuyThreshold
    /\ sell_threshold = DefaultSellThreshold
    /\ call = NoCall
    /\ news_articles = <<>>
    /\ time_series = <<>>
    /\ exchange_rate = None
    /\ technical_data = None
    /\ sentiment_data = NoArticles
    /\ api_key = TRUE
    /\ analyze = NoRequest
    /\ threads = NoThreads
    /\ limiter = NewLimiter
    /\ memory_cache \in {Filled(n) : n \in {0, MaxEntries - 1, MaxEntries}}
    /\ metrics = NewMetrics
    /\ db = NoRows

Get == \E key \in KeySamples : memory_cache.ops < MaxOps /\ get(key)

Set ==
    \E key \in KeySamples, value \in CacheValues :
        memory_cache.ops < MaxOps /\ set(key, value)

Delete == \E key \in KeySamples : memory_cache.ops < MaxOps /\ delete(key)

ClearPrefix == \E prefix \in Prefixes : memory_cache.ops < MaxOps /\ clear_prefix(prefix)

NextCache == Get \/ Set \/ Delete \/ ClearPrefix

SpecCache == InitCache /\ [][NextCache]_vars

(***************************************************************************)
(* SpecConfidence: _calculate_confidence on factor scores across [-1, 1],   *)
(* on an engine whose weights and thresholds are being updated.             *)
(***************************************************************************)
\* -1, -0.5, just below -0.1, -0.1, 0, 0.1, just above 0.1, 0.5, 1
ScoreSamples ==
    {-ScoreScale, -(ScoreScale \div 2), -(ScoreScale \div 10) - 1, -(ScoreScale \div 10),
     0, ScoreScale \div 10, ScoreScale \div 10 + 1, ScoreScale \div 2, ScoreScale}

Confidence ==
    \E technical_score \in ScoreSamples, sentiment_score \in ScoreSamples,
       event_score \in ScoreSamples :
        /\ call' = Outcome("calculate_confidence",
                           <<technical_score, sentiment_score, event_score>>, FALSE,
                           calculate_confidence(technical_score, sentiment_score,
                                                event_score))
        /\ UNCHANGED <<config, inputs, route, threads, services>>

NextConfidence ==
    \/ \E w \in WeightTriples : update_strategy_weights(w[1], w[2], w[3])
    \/ UpdateThresholds
    \/ Confidence

SpecConfidence == Init /\ [][NextConfidence]_vars

(***************************************************************************)
(* SpecMetrics: a few calls on a collector that is new, or has recorded     *)
(* one request short of, or exactly, a full window of durations.            *)
(***************************************************************************)
MaxCalls == 3

\* the collector after n requests of 1 ms, 2 ms, ..., n ms, all answered 200
Busy(n) ==
    [NewMetrics EXCEPT
        !.request_count = n,
        !.request_duration_sum = (n * (n + 1)) \div 2,
        !.request_durations = [i \in 1..n |-> i],
        !.history = [i \in 1..n |-> i]]

Durations == {1, 2}

StatusCodes == {200, 399, 400, 500}

InitMetrics ==
    /\ weights = DefaultWeights
    /\ buy_threshold = DefaultBuyThreshold
    /\ sell_threshold = DefaultSellThreshold
    /\ call = NoCall
    /\ news_articles = <<>>
    /\ time_series = <<>>
    /\ exchange_rate = None
    /\ technical_data = None
    /\ sentiment_data = NoArticles
    /\ api_key = TRUE
    /\ analyze = NoRequest
    /\ threads = NoThreads
    /\ limiter = NewLimiter
    /\ memory_cache = EmptyCache
    /\ metrics \in {Busy(n) : n \in {0, MaxDurations - 1, MaxDurations}}
    /\ db = NoRows

RecordRequest ==
    \E duration \in Durations, status_code \in StatusCodes :
        metrics.ops < MaxCalls /\ record_request(duration, status_code)

RecordApiCall == \E success \in BOOLEAN : metrics.ops < MaxCalls /\ record_api_call(success)

RecordRecommendation ==
    \E currency_pair \in {"EUR/USD", "GBP/USD"} :
        metrics.ops < MaxCalls /\ record_recommendation(currency_pair)

ResetMetrics == metrics.ops < MaxCalls /\ reset_metrics

NextMetrics == RecordRequest \/ RecordApiCall \/ RecordRecommendation \/ ResetMetrics

SpecMetrics == InitMetrics /\ [][NextMetrics]_vars

(***************************************************************************)
(* SpecNews: analyze_sentiment on every list of up to MaxArticles articles  *)
(* of five kinds.                                                           *)
(***************************************************************************)
MaxArticles == 6

\* what an article's text contains, with TextBlob's polarity for it
ArticleKinds ==
    {[keywords |-> {"interest rate", "inflation"}, blank |-> FALSE,
      polarity |-> RawScale \div 2],
     [keywords |-> {"war"}, blank |-> FALSE, polarity |-> -RawScale],
     [keywords |-> {"tariff", "trade war", "war", "conflict"}, blank |-> FALSE,
      polarity |-> 0],
     [keywords |-> {}, blank |-> FALSE, polarity |-> RawScale],
     [keywords |-> {}, blank |-> TRUE, polarity |-> 0]}

Headlines == <<"h1", "h2", "h3", "h4", "h5", "h6", "h7", "h8">>

\* the articles of the given kinds, under distinct headlines
Articles(kinds) ==
    [i \in DOMAIN kinds |->
        [title |-> IF kinds[i].blank THEN "" ELSE Headlines[i],
         keywords |-> kinds[i].keywords,
         blank |-> kinds[i].blank,
         polarity |-> kinds[i].polarity]]

InitNews ==
    /\ weights = DefaultWeights
    /\ buy_threshold = DefaultBuyThreshold
    /\ sell_threshold = DefaultSellThreshold
    /\ call = NoCall
    /\ \E n \in 0..MaxArticles : \E kinds \in [1..n -> ArticleKinds] :
           news_articles = Articles(kinds)
    /\ time_series = <<>>
    /\ exchange_rate = None
    /\ technical_data = None
    /\ sentiment_data = NoArticles
    /\ api_key = TRUE
    /\ analyze = NoRequest
    /\ threads = NoThreads
    /\ limiter = NewLimiter
    /\ memory_cache = EmptyCache
    /\ metrics = NewMetrics
    /\ db = NoRows

AnalyzeSentiment == analyze_sentiment(news_articles)

NextNews == AnalyzeSentiment

SpecNews == InitNews /\ [][NextNews]_vars

(***************************************************************************)
(* Properties.                                                             *)
(***************************************************************************)
WeightSum == weights.technical + weights.sentiment + weights.events

IsDefaultConfig ==
    /\ weights = DefaultWeights
    /\ buy_threshold = DefaultBuyThreshold
    /\ sell_threshold = DefaultSellThreshold

\* C1: after any sequence of update_strategy_weights calls the stored weights
\* sum to 1.0 within 0.001, and a call whose arguments sum further than 0.001
\* from 1.0 raises and leaves the three stored weights as they were.
C1_WeightSumKept ==
    /\ [](Abs(WeightSum - WeightScale) <= 1)
    /\ [][(/\ call'.op = "update_strategy_weights"
           /\ call' # call
           /\ Abs(call'.args[1] + call'.args[2] + call'.args[3] - WeightScale) > 1)
          => (call'.raised /\ weights' = weights)]_vars

\* C1 witness: a call with a bad sum was refused after an accepted update.
C1_Witness ==
    /\ call.op = "update_strategy_weights"
    /\ call.raised
    /\ Abs(call.args[1] + call.args[2] + call.args[3] - WeightScale) > 1
    /\ weights # DefaultWeights

\* C2: in every reachable configuration each weight lies in [0, 1].
C2_EachWeightInUnitRange ==
    /\ 0 <= weights.technical /\ weights.technical <= WeightScale
    /\ 0 <= weights.sentiment /\ weights.sentiment <= WeightScale
    /\ 0 <= weights.events /\ weights.events <= WeightScale

\* C3: after any sequence of update_thresholds calls buy_threshold >
\* sell_threshold, and a call with buy <= sell raises and leaves both stored
\* thresholds as they were.
C3_ThresholdOrderKept ==
    /\ [](buy_threshold > sell_threshold)
    /\ [][(/\ call'.op = "update_thresholds"
           /\ call' # call
           /\ call'.args[1] <= call'.args[2])
          => (/\ call'.raised
              /\ buy_threshold' = buy_threshold
              /\ sell_threshold' = sell_threshold)]_vars

\* C3 witness: equal thresholds were refused after an accepted update.
C3_Witness ==
    /\ call.op = "update_thresholds"
    /\ call.raised
    /\ call.args[1] = call.args[2]
    /\ sell_threshold # DefaultSellThreshold

Classified(overall_score, label) ==
    /\ label = "buy" <=> overall_score >= buy_threshold
    /\ label = "sell" <=>
           (overall_score <= sell_threshold /\ ~(overall_score >= buy_threshold))
    /\ label = "hold" <=>
           (overall_score < buy_threshold /\ overall_score > sell_threshold)

\* C4: classification is BUY iff overall >= buy_threshold, SELL iff overall <=
\* sell_threshold and not BUY, HOLD otherwise; with the default thresholds 0.6
\* is BUY, -0.6 is SELL and 0.599999 is HOLD.
C4_InclusiveThresholds ==
    /\ call.op = "determine_recommendation" =>
           /\ Classified(call.args[1], call.result)
           /\ (IsDefaultConfig /\ call.args[1] = (6 * OverallScale) \div 10)
                  => call.result = "buy"
           /\ (IsDefaultConfig /\ call.args[1] = -((6 * OverallScale) \div 10))
                  => call.result = "sell"
           /\ (IsDefaultConfig /\ call.args[1] = JustBelowBuy)
                  => call.result = "hold"
    /\ call.op = "generate_recommendation" =>
           Classified(call.result.overall_score, call.result.recommendation)

\* C4 witness: with the default thresholds a score of exactly 0.6 was classified.
C4_Witness ==
    /\ call.op = "determine_recommendation"
    /\ IsDefaultConfig
    /\ call.args[1] = buy_threshold
    /\ call.result = "buy"

InUnitBall(score) == -ScoreScale <= score /\ score <= ScoreScale

\* C5: for every technical and sentiment snapshot the technical, sentiment and
\* event scores lie in [-1, 1] and the confidence lies in [0, 1].
C5_ScoresInRange ==
    call.op = "generate_recommendation" =>
        /\ InUnitBall(call.result.technical_score)
        /\ InUnitBall(call.result.sentiment_score)
        /\ InUnitBall(call.result.event_score)
        /\ 0 <= call.result.confidence_score
        /\ call.result.confidence_score <= ConfScale

\* C5 witness: an amplified sentiment of 1.2 and five events of -0.3 each were
\* scored, both beyond the range before clamping.
C5_Witness ==
    /\ call.op = "generate_recommendation"
    /\ sentiment_data.score = RawScale
    /\ sentiment_data.news_count > 10
    /\ sentiment_data.geopolitical_events = Repeat(War, MaxEvents)
    /\ call.result.sentiment_score = ScoreScale
    /\ call.result.event_score = -ScoreScale

\* C6: for every snapshot pair and every configuration reachable through
\* accepted update_strategy_weights calls the overall score lies in [-1, 1].
C6_OverallInRange ==
    call.op = "generate_recommendation" =>
        /\ -OverallScale <= call.result.overall_score
        /\ call.result.overall_score <= OverallScale

Scenario ==
    /\ call.op = "generate_recommendation"
    /\ IsDefaultConfig
    /\ call.result.technical_score = ScoreScale \div 4
    /\ call.result.sentiment_score = (6 * ScoreScale) \div 10
    /\ call.result.event_score = (2 * ScoreScale) \div 10

\* C8 as stated: factor scores 0.25 / 0.6 / 0.2 under the default configuration
\* yield overall 0.34, HOLD and confidence 0.54.
C8_AsStated ==
    Scenario =>
        /\ call.result.overall_score = (34 * OverallScale) \div 100
        /\ call.result.recommendation = "hold"
        /\ call.result.confidence_score = (54 * ConfScale) \div 100

\* C8 amended: the same scenario yields overall 0.34, HOLD and confidence
\* 0.6075: three positive factors give base 0.8 + 0.1 = 0.9, times 0.675.
C8_Scenario ==
    Scenario =>
        /\ call.result.overall_score = (34 * OverallScale) \div 100
        /\ call.result.recommendation = "hold"
        /\ call.result.confidence_score = (6075 * (ConfScale \div 100)) \div 100

\* C8 witness: the scenario was synthesized from snapshots that score it.
C8_Witness ==
    /\ Scenario
    /\ call.args[3].score = RawScale \div 2
    /\ call.args[3].news_count = 15

FourCloses ==
    /\ Len(time_series) = 4
    /\ exchange_rate # None
    /\ technical_data # None

\* C9 as stated: exactly 4 closes yield moving_average_5 absent, trend
\* unknown, and a technical score of 0.0 with zero signals evaluated.
C9_AsStated ==
    FourCloses =>
        /\ calculate_moving_averages(time_series).moving_average_5 = None
        /\ calculate_moving_averages(time_series).trend_direction = "unknown"
        /\ Val(technical_data).trend_direction = "unknown"
        /\ calculate_technical_score(Val(technical_data)) = 0
        /\ technical_accumulator(Val(technical_data)).factors = 0

\* C9 amended: exactly 4 closes yield moving_average_5 absent, trend neutral,
\* and a technical score of 0.0 with one signal counted, the trend signal,
\* which contributes 0.
C9_SparseHistory ==
    FourCloses =>
        /\ calculate_moving_averages(time_series).moving_average_5 = None
        /\ calculate_moving_averages(time_series).trend_direction = "neutral"
        /\ Val(technical_data).moving_average_5 = None
        /\ Val(technical_data).trend_direction = "neutral"
        /\ calculate_technical_score(Val(technical_data)) = 0
        /\ technical_accumulator(Val(technical_data)) = [score |-> 0, factors |-> 1]
        /\ call.op = "generate_recommendation" => call.result.technical_score = 0

\* C9 witness: a 4-close history with a rising tail was analysed and scored.
C9_Witness ==
    /\ FourCloses
    /\ call.op = "generate_recommendation"
    /\ SortedCloses(time_series)[4] > SortedCloses(time_series)[1]

\* The technical score as C10 describes it: every signal gated on its own
\* inputs, the sum divided by the number of signals evaluated.
independent_technical_score(td) ==
    LET ma_5 == td.moving_average_5
        ma_20 == td.moving_average_20
        ma_50 == td.moving_average_50
        price == td.current_rate > 0 /\ Truthy(ma_20)
        cross == Truthy(ma_5) /\ Truthy(ma_20)
        slope == Truthy(ma_20) /\ Truthy(ma_50)
        trend == td.trend_direction \in {"upward", "downward", "neutral"}
        sum == (IF price THEN Signal(td.current_rate, Val(ma_20), 3) ELSE 0)
               + (IF cross THEN Signal(Val(ma_5), Val(ma_20), 2) ELSE 0)
               + (IF slope THEN Signal(Val(ma_20), Val(ma_50), 2) ELSE 0)
               + (IF td.trend_direction = "upward" THEN 3
                  ELSE IF td.trend_direction = "downward" THEN -3 ELSE 0)
        n == Cardinality({i \in 1..4 : <<price, cross, slope, trend>>[i]})
    IN  IF n = 0 THEN 0 ELSE (sum * (ScoreScale \div 10)) \div n

\* C10: the technical score is the sum of the contributions of the signals
\* whose own inputs are present divided by the number of signals evaluated,
\* each signal gated independently of the others.
C10_IndependentGating ==
    call.op = "generate_recommendation" =>
        call.result.technical_score = independent_technical_score(call.args[2])

\* raw * num / den on the factor-score scale, clamped to [-1, 1]
ScaledRaw(raw, num, den) ==
    Clamp(-ScoreScale, ScoreScale, (raw * (ScoreScale \div RawScale) * num) \div den)

\* C11: the sentiment score is the raw sentiment times 1.2 when news_count >
\* 10, times 0.5 when news_count < 3, unchanged for 3 <= news_count <= 10,
\* then clamped to [-1, 1]; raw 0.5 gives 0.6 with 15 articles and 0.25 with 2.
C11_VolumeAdjustment ==
    call.op = "generate_recommendation" =>
        LET sd == call.args[3]
            score == call.result.sentiment_score
        IN  /\ sd.news_count > 10 => score = ScaledRaw(sd.score, 12, 10)
            /\ sd.news_count < 3 => score = ScaledRaw(sd.score, 5, 10)
            /\ (3 <= sd.news_count /\ sd.news_count <= 10)
                   => score = ScaledRaw(sd.score, 1, 1)
            /\ (sd.score = RawScale \div 2 /\ sd.news_count = 15)
                   => score = (6 * ScoreScale) \div 10
            /\ (sd.score = RawScale \div 2 /\ sd.news_count = 2)
                   => score = ScoreScale \div 4

\* C11 witness: a raw sentiment of 0.5 backed by exactly ten articles was
\* scored and came out unchanged.
C11_Witness ==
    /\ call.op = "generate_recommendation"
    /\ call.args[3].score = RawScale \div 2
    /\ call.args[3].news_count = 10
    /\ call.result.sentiment_score = ScoreScale \div 2

Matching(events, first, second) ==
    Cardinality({i \in 1..Len(events) :
                    /\ events[i] \cap first # {}
                    /\ second # {} => events[i] \cap second = {}})

\* C12: the event score is the clamped sum of per-event deltas, each event
\* counted once under the first category it matches: an economic event gives
\* +0.2 on an easing/growth keyword, else -0.2 on a tightening keyword, else 0;
\* a geopolitical event gives -0.3 on a conflict/sanction keyword, else +0.2 on
\* a deal/stability keyword, else 0.
C12_FirstMatchWins ==
    call.op = "generate_recommendation" =>
        LET economic == call.args[3].economic_events
            geopolitical == call.args[3].geopolitical_events
            tenths == 2 * Matching(economic, EasingKeywords, {})
                      - 2 * Matching(economic, TighteningKeywords, EasingKeywords)
                      - 3 * Matching(geopolitical, ConflictKeywords, {})
                      + 2 * Matching(geopolitical, DealKeywords, ConflictKeywords)
        IN  call.result.event_score
                = Clamp(-ScoreScale, ScoreScale, tenths * (ScoreScale \div 10))

\* C12 witness: an economic event carrying both an easing and a tightening
\* keyword was scored as +0.2 alone.
C12_Witness ==
    /\ call.op = "generate_recommendation"
    /\ call.args[3].economic_events = <<Growth \cup Inflation, {}>>
    /\ call.args[3].geopolitical_events = <<>>
    /\ call.result.event_score = (2 * ScoreScale) \div 10

\* The agreement table of C13 by the number of positive and negative factors
\* among the three (the rest are neutral), in tenths.
AgreementTable ==
    [p \in 0..3, n \in 0..3 |->
        CASE p = 3 /\ n = 0 -> 9
          [] p = 2 /\ n = 0 -> 8
          [] p = 0 /\ n = 3 -> 9
          [] p = 0 /\ n = 2 -> 8
          [] p + n <= 1 -> 6
          [] OTHER -> 5]

\* C13: a factor is positive above 0.1, negative below -0.1, else neutral;
\* the base is 0.8 + 0.1 x (count - 2) when at least two factors are positive
\* and none negative (symmetrically for negative), 0.6 when at least two are
\* neutral, 0.5 otherwise; the confidence is base x (0.5 + 0.5 x mean |score|),
\* clamped to [0, 1].
C13_AgreementTable ==
    call.op = "generate_recommendation" =>
        LET scores == <<call.result.technical_score, call.result.sentiment_score,
                        call.result.event_score>>
            tenth == ScoreScale \div 10
            p == Cardinality({i \in 1..3 : scores[i] > tenth})
            n == Cardinality({i \in 1..3 : scores[i] < -tenth})
            magnitude == Abs(scores[1]) + Abs(scores[2]) + Abs(scores[3])
        IN  call.result.confidence_score
                = Clamp(0, ConfScale, AgreementTable[p, n] * (3 * ScoreScale + magnitude))

\* C13 witness: two negative factors and one factor of exactly 0.1, which is
\* neutral, were scored with base 0.8.
C13_Witness ==
    /\ call.op = "generate_recommendation"
    /\ call.result.technical_score = ScoreScale \div 10
    /\ call.result.sentiment_score < -(ScoreScale \div 10)
    /\ call.result.event_score < -(ScoreScale \div 10)
    /\ call.result.confidence_score
           = 8 * (3 * ScoreScale + Abs(call.result.technical_score)
                  + Abs(call.result.sentiment_score) + Abs(call.result.event_score))

\* C15 as stated: the calculator fails with InsufficientDataError on an empty
\* price series.
C15_AsStated ==
    (call.op = "calculate_moving_averages" /\ time_series = <<>>) => call.raised

\* C15 amended: on an empty price series the calculator raises nothing and
\* returns the empty dict, which holds no average, no trend and no price.
C15_EmptyResult ==
    (call.op = "calculate_moving_averages" /\ time_series = <<>>) =>
        /\ ~call.raised
        /\ call.result = EmptyDict
        /\ call.result.empty

\* C15 witness: the calculator was called on an empty series and returned.
C15_Witness ==
    /\ call.op = "calculate_moving_averages"
    /\ time_series = <<>>
    /\ ~call.raised

\* The number of entries of the series dated after entry i.
Later(ts, i) == Cardinality({m \in 1..Len(ts) : ts[m].date > ts[i].date})

\* The close with exactly k later entries: k = 0 is the latest close.
Recent(ts, k) == ts[CHOOSE i \in 1..Len(ts) : Later(ts, i) = k].close

\* The sum of the closes of the window most recent entries among ts[1..i].
RECURSIVE SumRecent(_, _, _)
SumRecent(ts, window, i) ==
    IF i = 0 THEN 0
    ELSE (IF Later(ts, i) < window THEN ts[i].close ELSE 0)
         + SumRecent(ts, window, i - 1)

\* C16: the trend is upward iff there are at least 20 closes, the latest close
\* is strictly above the 20-sample average and the two closes preceding the
\* latest are strictly increasing; downward iff the same holds with both
\* comparisons reversed; neutral otherwise; never both.
C16_TrendDirection ==
    (call.op = "calculate_moving_averages" /\ time_series # <<>>) =>
        LET ts == time_series
            enough == Len(ts) >= 20
            up == /\ enough
                  /\ 20 * Recent(ts, 0) > SumRecent(ts, 20, Len(ts))
                  /\ Recent(ts, 1) > Recent(ts, 2)
            down == /\ enough
                    /\ 20 * Recent(ts, 0) < SumRecent(ts, 20, Len(ts))
                    /\ Recent(ts, 1) < Recent(ts, 2)
            trend == call.result.trend_direction
        IN  /\ trend = "upward" <=> up
            /\ trend = "downward" <=> down
            /\ trend = "neutral" <=> (~up /\ ~down)
            /\ ~(up /\ down)

\* C16 witness: a 21-close history given latest-first was classified upward
\* although its latest close does not exceed the close before it.
C16_Witness ==
    /\ call.op = "calculate_moving_averages"
    /\ Len(time_series) = 21
    /\ time_series[1].date > time_series[2].date
    /\ call.result.trend_direction = "upward"
    /\ Recent(time_series, 0) <= Recent(time_series, 1)

Average(result, window) ==
    CASE window = 5 -> result.moving_average_5
      [] window = 20 -> result.moving_average_20
      [] window = 50 -> result.moving_average_50

\* C17: for N in {5, 20, 50} and every non-empty series, the N-sample average
\* is reported iff there are at least N closes and then equals the mean of the
\* N most recent closes by date, whatever the order of the input; otherwise it
\* is None, never zero.
C17_MovingAverages ==
    (call.op = "calculate_moving_averages" /\ time_series # <<>>) =>
        \A window \in {5, 20, 50} :
            LET ma == Average(call.result, window)
            IN  /\ ma # None <=> Len(time_series) >= window
                /\ ma # None =>
                       window * Val(ma) = SumRecent(time_series, window, Len(time_series))
                /\ Len(time_series) < window => (ma = None /\ ma # Some(0))

\* C17 witness: a 51-close history given latest-first produced a 50-sample
\* average that differs from its latest close, and a 5-sample one that
\* differs from the 50-sample one.
C17_Witness ==
    /\ call.op = "calculate_moving_averages"
    /\ Len(time_series) = 51
    /\ time_series[1].date > time_series[2].date
    /\ call.result.moving_average_50 # None
    /\ Val(call.result.moving_average_50) # call.result.current_price
    /\ call.result.moving_average_5 # call.result.moving_average_50

Sentinel ==
    [current_rate |-> 0,
     moving_average_5 |-> None,
     moving_average_20 |-> None,
     moving_average_50 |-> None,
     trend_direction |-> "unknown"]

\* The technical fetch of the request returned with the quote or the history
\* missing.
DegradedData ==
    /\ "technical" \in analyze.completed
    /\ (exchange_rate = None \/ time_series = <<>>)

\* C14 as stated: when the spot rate is unavailable or the history is absent
\* the analysis does not fail: it proceeds with the sentinel snapshot and a
\* recommendation is still produced.
C14_AsStated ==
    (DegradedData /\ analyze.pc = "done") =>
        /\ analyze.status = 200
        /\ call.op = "generate_recommendation"

\* C14 amended: when the spot rate is unavailable or the history is absent,
\* get_technical_analysis does not fail but returns the sentinel snapshot
\* (current_rate 0, no averages, trend unknown), whose technical score is 0;
\* the /analyze handler then answers 503 without fetching news and without
\* invoking the synthesis, so no recommendation is produced.
C14_ShortCircuit ==
    DegradedData =>
        /\ technical_data = Some(Sentinel)
        /\ calculate_technical_score(Val(technical_data)) = 0
        /\ analyze.pc = "done"
        /\ analyze.status = 503
        /\ "news" \notin analyze.completed
        /\ call.op # "generate_recommendation"

\* C14 witness: a request with a spot quote but no price history was answered.
C14_Witness ==
    /\ DegradedData
    /\ exchange_rate # None
    /\ time_series = <<>>
    /\ analyze.pc = "done"

\* C19: in every execution of the analyze pipeline generate_recommendation is
\* invoked only after both the technical fetch and the news/sentiment fetch
\* have completed, and on the snapshots they returned.
C19_SynthesisAfterFetches ==
    /\ [][(call'.op = "generate_recommendation" /\ call' # call) =>
              /\ analyze.completed = {"technical", "news"}
              /\ technical_data # None
              /\ call'.args = <<analyze.currency_pair, Val(technical_data),
                                sentiment_data>>]_vars
    /\ []((analyze.pc \in {"persist", "done"} /\ analyze.status \in {0, 200})
              => (/\ call.op = "generate_recommendation"
                  /\ analyze.completed = {"technical", "news"}))

\* C19 witness: a request was synthesized from a fetched snapshot with news
\* and then answered 200.
C19_Witness ==
    /\ analyze.status = 200
    /\ call.op = "generate_recommendation"
    /\ call.args[3].news_count > 0
    /\ call.args[2].moving_average_20 # None

\* Two successive syntheses returned the same label.
SameLabelTwice ==
    /\ call.op = "generate_recommendation"
    /\ call.before # None
    /\ Val(call.before).recommendation = call.result.recommendation

\* Whether the closing paragraph's sentiment line applies.
SentimentSupports(recommendation, sentiment_score) ==
    \/ recommendation = "buy" /\ sentiment_score > 0
    \/ recommendation = "sell" /\ sentiment_score < 0

\* C20 as stated: the closing reasoning paragraph depends solely on the
\* recommendation label, so two syntheses with the same label close alike.
C20_AsStated ==
    SameLabelTwice =>
        Closing(call.result.justification) = Val(call.before).closing

\* C20 amended: the closing paragraph depends on the label and, for BUY and
\* SELL, on the sign of the weighted sentiment score: BUY adds its sentiment
\* line only when the score is above 0, SELL only when it is below 0, and the
\* HOLD paragraph is fixed.
C20_LabelAndSentimentSign ==
    /\ (/\ SameLabelTwice
        /\ SentimentSupports(call.result.recommendation,
                             call.result.sentiment_score)
               = SentimentSupports(Val(call.before).recommendation,
                                   Val(call.before).sentiment_score))
           => Closing(call.result.justification) = Val(call.before).closing
    /\ call.op = "generate_recommendation" =>
           Len(Closing(call.result.justification))
               = IF SentimentSupports(call.result.recommendation,
                                      call.result.sentiment_score)
                 THEN 3 ELSE 2

\* C20 witness: two successive BUY syntheses, the first without positive
\* sentiment and the second with it, closed differently.
C20_Witness ==
    /\ SameLabelTwice
    /\ call.result.recommendation = "buy"
    /\ Val(call.before).sentiment_score <= 0
    /\ call.result.sentiment_score > 0
    /\ Closing(call.result.justification) # Val(call.before).closing

\* The values a returned synthesis read are those of configuration c.
ReadFrom(read, c) ==
    /\ read[1] = c.weights.technical
    /\ read[2] = c.weights.sentiment
    /\ read[3] = c.weights.events
    /\ read[4] = c.buy_threshold
    /\ Len(read) = 5 => read[5] = c.sell_threshold

\* C18: for any interleaving of update_strategy_weights / update_thresholds
\* with generate_recommendation on the shared engine, every synthesis computes
\* from the complete configuration before an update or the complete one
\* after it, never from a mixture.
C18_NoMixedConfig ==
    threads.synth.pc = "returned" =>
        \E c \in threads.synth.complete : ReadFrom(threads.synth.read, c)

ResultFields ==
    {"recommendation", "confidence_score", "overall_score", "technical_score",
     "sentiment_score", "event_score", "justification"}

\* C21: for every combination of present and absent optional fields (each
\* moving average, current_rate 0 or positive, every trend, event lists empty
\* or missing) generate_recommendation raises nothing and returns a result
\* with all seven fields.
C21_TotalSynthesis ==
    call.op = "generate_recommendation" =>
        /\ ~call.raised
        /\ DOMAIN call.result = ResultFields
        /\ call.result.recommendation \in {"buy", "hold", "sell"}
        /\ Len(call.result.justification) > 0

\* C21 witness: a snapshot with a positive rate, the 20-sample average absent
\* and the other two present, and no event lists, was synthesized.
C21_Witness ==
    /\ call.op = "generate_recommendation"
    /\ call.args[2].current_rate > 0
    /\ call.args[2].moving_average_20 = None
    /\ call.args[2].moving_average_5 # None
    /\ call.args[2].moving_average_50 # None
    /\ call.args[3].economic_events = <<>>
    /\ call.args[3].geopolitical_events = <<>>
    /\ ~call.raised

\* The last dispatch was a request to a rate-limited (non-health) path.
Limited == limiter.last.path # "" /\ limiter.last.path \notin HealthPaths

\* Requests of the sequence passed on within the window (hi - 60, hi]
PassedWithin(times, hi) ==
    Cardinality({i \in DOMAIN times : hi - Window < times[i] /\ times[i] <= hi})

\* C22: for every client IP, no window of 60 seconds (open at its old end,
\* closed at its new end, as wide as the limiter's own cut-off) holds more
\* than requests_per_minute requests passed to the application, and a
\* request that finds requests_per_minute of the client's passed requests in
\* the last 60 seconds is answered 429 and is not passed on.
C22_SlidingWindow ==
    /\ \A ip \in DOMAIN limiter.passed :
           \A i \in DOMAIN limiter.passed[ip] :
               PassedWithin(limiter.passed[ip], limiter.passed[ip][i])
                   <= limiter.requests_per_minute
    /\ (Limited /\ limiter.last.seen >= limiter.requests_per_minute) =>
           /\ limiter.last.status = 429
           /\ PassedWithin(TimesOf(limiter.passed, limiter.last.client_ip),
                           limiter.last.at) = limiter.last.seen

C22_Witness ==
    /\ Limited
    /\ limiter.last.status = 429
    /\ limiter.last.at >= Tick
    /\ limiter.requests_per_minute > 1
    /\ limiter.last.seen = limiter.requests_per_minute
    /\ Len(limiter.passed[limiter.last.client_ip]) > limiter.requests_per_minute

IsSuffix(s, t) ==
    /\ Len(s) <= Len(t)
    /\ \A i \in DOMAIN s : s[i] = t[Len(t) - Len(s) + i]

\* C23: a rejected request leaves no timestamp behind (each client's window
\* holds only times of requests that were passed on), and a request that
\* finds fewer than requests_per_minute of the client's passed requests in
\* the preceding 60 seconds is passed on, whether or not the client is in
\* blocked_ips.
C23_Recovery ==
    /\ \A ip \in DOMAIN limiter.requests :
           IsSuffix(limiter.requests[ip], TimesOf(limiter.passed, ip))
    /\ (Limited /\ limiter.last.seen < limiter.requests_per_minute) =>
           /\ limiter.last.status = 200
           /\ PassedWithin(limiter.passed[limiter.last.client_ip],
                           limiter.last.at) = limiter.last.seen + 1

C23_Witness ==
    /\ Limited
    /\ limiter.last.client_ip \in limiter.blocked_ips
    /\ limiter.last.status = 200
    /\ limiter.last.seen > 0
    /\ limiter.last.seen < limiter.requests_per_minute

\* C24: in memory-fallback mode the cache never holds more than 100 items
\* after an operation; a set that brings the 101st key removes exactly the
\* 20 keys at the front of the insertion order and nothing else, and any
\* other set removes nothing.
C24_BoundedCache ==
    /\ Len(memory_cache.items) <= MaxEntries
    /\ (memory_cache.last.op = "set" /\ memory_cache.last.result = Some(TRUE)) =>
           LET found == memory_cache.last.found
               key == memory_cache.last.key
               fresh == \A i \in DOMAIN found : found[i] # key
           IN IF fresh /\ Len(found) = MaxEntries
              THEN /\ memory_cache.last.removed = {found[i] : i \in 1..EvictCount}
                   /\ Cardinality(memory_cache.last.removed) = EvictCount
                   /\ Keys(memory_cache.items)
                          = SubSeq(Append(found, key), EvictCount + 1, MaxEntries + 1)
              ELSE /\ memory_cache.last.removed = {}
                   /\ Len(memory_cache.items) = Len(found) + (IF fresh THEN 1 ELSE 0)

C24_Witness ==
    /\ memory_cache.last.op = "set"
    /\ memory_cache.ops > 1
    /\ Cardinality(memory_cache.last.removed) = EvictCount
    /\ Len(memory_cache.items) = MaxEntries + 1 - EvictCount

\* C25: in memory-fallback mode a get(k) that directly follows a set(k, v)
\* that returned True returns v, also when the set evicted, and a get(k)
\* that directly follows delete(k) returns None.
C25_ReadYourWrite ==
    [][(memory_cache'.last.op = "get" /\ memory_cache'.last.key = memory_cache.last.key) =>
          /\ (memory_cache.last.op = "set" /\ memory_cache.last.result = Some(TRUE)) =>
                 memory_cache'.last.result = Some(memory_cache.last.value)
          /\ memory_cache.last.op = "delete" =>
                 memory_cache'.last.result = None]_vars

C25_Witness ==
    /\ memory_cache.last.op = "get"
    /\ memory_cache.last.key = KeyOf(MaxEntries + 1)
    /\ memory_cache.last.result = Some("v2")
    /\ Len(memory_cache.last.found) = MaxEntries + 1 - EvictCount

\* 0.3, the largest single signal of the technical score
StrongestSignal == 3 * (ScoreScale \div 10)

\* C26: the technical score of every snapshot has magnitude at most 0.3, so
\* its final clamp to [-1, 1] changes nothing, and under the default weights
\* and thresholds a synthesis whose sentiment and event scores are 0 is
\* labelled hold.
C26_TechnicalAlone ==
    (call.op = "generate_recommendation" /\ ~call.raised) =>
        LET td == call.args[2]
            acc == technical_accumulator(td)
        IN /\ Abs(call.result.technical_score) <= StrongestSignal
           /\ call.result.technical_score * acc.factors
                  = acc.score * (ScoreScale \div 10)
           /\ (/\ weights = DefaultWeights
               /\ buy_threshold = DefaultBuyThreshold
               /\ sell_threshold = DefaultSellThreshold
               /\ call.result.sentiment_score = 0
               /\ call.result.event_score = 0) =>
                  call.result.recommendation = "hold"

C26_Witness ==
    /\ call.op = "generate_recommendation"
    /\ ~call.raised
    /\ call.result.technical_score = -StrongestSignal
    /\ call.args[2].moving_average_20 = None
    /\ call.result.sentiment_score = 0
    /\ call.result.event_score = 0
    /\ call.result.recommendation = "hold"

\* C27: for factor scores in [-1, 1] the confidence lies in [0.25, 0.9]; it
\* is the unclamped product of the agreement base and (0.5 + 0.5 * mean|s|),
\* so the final clamp to [0, 1] changes nothing, whatever weights and
\* thresholds the engine holds.
C27_ConfidenceRange ==
    call.op = "calculate_confidence" =>
        LET magnitude == Abs(call.args[1]) + Abs(call.args[2]) + Abs(call.args[3])
        IN /\ call.result >= ConfScale \div 4
           /\ call.result <= (9 * ConfScale) \div 10
           /\ call.result = confidence_base(call.args[1], call.args[2], call.args[3])
                                * (3 * ScoreScale + magnitude)

C27_Witness ==
    /\ call.op = "calculate_confidence"
    /\ call.result = (9 * ConfScale) \div 10
    /\ weights # DefaultWeights
    /\ buy_threshold # DefaultBuyThreshold

\* The /analyze request has been answered with an error status.
AnsweredWithError == analyze.pc = "done" /\ analyze.status \in {400, 503, 500}

\* C28: a request that ends with an error response (400, 503 or 500) has
\* committed no recommendation row; a recommendation row is committed only
\* on a request that returns a successful response.
C28_AllOrNothing == AnsweredWithError => db.recommendations = <<>>

\* The sum of the per-pair counts
PairTotal ==
    LET counts == metrics.currency_pairs_analyzed
        count(pair) == IF pair \in DOMAIN counts THEN counts[pair] ELSE 0
    IN  count("EUR/USD") + count("GBP/USD")

\* C29: after any calls of record_request, record_api_call,
\* record_recommendation and reset_metrics, error_count <= request_count,
\* api_error_count <= api_call_count, recommendation_count is the sum of the
\* per-pair counts, and request_durations holds the most recent durations
\* recorded since the reset, at most 1000 of them.
C29_MetricsConsistent ==
    /\ metrics.error_count <= metrics.request_count
    /\ metrics.api_error_count <= metrics.api_call_count
    /\ DOMAIN metrics.currency_pairs_analyzed \subseteq {"EUR/USD", "GBP/USD"}
    /\ metrics.recommendation_count = PairTotal
    /\ Len(metrics.request_durations) <= MaxDurations
    /\ Len(metrics.request_durations)
           = (IF Len(metrics.history) > MaxDurations THEN MaxDurations
              ELSE Len(metrics.history))
    /\ IsSuffix(metrics.request_durations, metrics.history)

C29_Witness ==
    /\ Len(metrics.history) > MaxDurations
    /\ Len(metrics.request_durations) = MaxDurations
    /\ metrics.error_count > 0
    /\ metrics.error_count < metrics.request_count
    /\ metrics.recommendation_count > 0

\* The articles of the list that have text containing a keyword of the list
Contributors(articles, keyword_list) ==
    {i \in DOMAIN articles :
        ~articles[i].blank /\ \E k \in DOMAIN keyword_list :
                                  keyword_list[k] \in articles[i].keywords}

\* The events list names, in article order, the first five contributors,
\* each once and with the keyword that comes first in the keyword list.
FirstFiveOf(events, articles, keyword_list) ==
    LET from == Contributors(articles, keyword_list)
        nth(j) == CHOOSE i \in from : Cardinality({k \in from : k <= i}) = j
    IN  /\ Len(events) = (IF Cardinality(from) > 5 THEN 5 ELSE Cardinality(from))
        /\ \A j \in DOMAIN events :
               /\ events[j].title = articles[nth(j)].title
               /\ events[j].keyword \in articles[nth(j)].keywords
               /\ \A k \in DOMAIN keyword_list :
                      (keyword_list[k] = events[j].keyword) =>
                          \A earlier \in 1..(k - 1) :
                              keyword_list[earlier] \notin articles[nth(j)].keywords

\* C30: analyze_sentiment reports news_count as the number of articles
\* passed in, and each event list it returns has at most 5 entries, follows
\* the order of the articles, and holds at most one event per article, made
\* from the first keyword of the category's list that the article matches.
\* (For an empty list of articles the result carries no event lists.)
C30_EventLists ==
    call.op = "analyze_sentiment" =>
        LET articles == call.args[1]
        IN  /\ call.result.news_count = Len(articles)
            /\ articles # <<>> =>
                   /\ Len(call.result.economic_events) <= 5
                   /\ Len(call.result.geopolitical_events) <= 5
                   /\ FirstFiveOf(call.result.economic_events, articles,
                                  economic_keywords)
                   /\ FirstFiveOf(call.result.geopolitical_events, articles,
                                  geopolitical_keywords)

C30_Witness ==
    /\ call.op = "analyze_sentiment"
    /\ Len(call.args[1]) = MaxArticles
    /\ Cardinality(Contributors(call.args[1], geopolitical_keywords)) > 5
    /\ Len(call.result.geopolitical_events) = 5
    /\ Len(call.result.economic_events) = 2
    /\ call.result.economic_events[1].keyword = "trade war"
    /\ call.result.economic_events[2].title = Headlines[MaxArticles]
    /\ call.result.geopolitical_events[5].title = Headlines[5]

====
